---------------------------- MODULE Spec2Model ----------------------------
(***************************************************************************)
(* State-machine model of the Windows cropping window capturer             *)
(* (modules/desktop_capture/cropping_window_capturer_win.cc), of the       *)
(* window capturer it falls back to (window_capturer_win.cc, with the      *)
(* Windows.Graphics.Capture backend of win/windows_graphics_capturer.cc)   *)
(* and of the predicates of win/selected_window_context.cc.                *)
(*                                                                         *)
(* The operating system is the environment: a desktop is a z-ordered list  *)
(* of top-level windows plus the attributes of every window handle.  One   *)
(* scan (EnumWindows, EnumChildWindows, FindWindowEx) reads one consistent *)
(* desktop; the desktop may change between the steps of the caller thread  *)
(* and of the worker thread.                                               *)
(***************************************************************************)
EXTENDS Integers, Sequences, FiniteSets, TLC

VARIABLES
    desk,                               \* the OS desktop (windows, z-order)
    opts,                               \* DesktopCaptureOptions and OS version
    now,                                \* rtc::Time32(), a 32-bit millisecond clock
    pc,                                 \* position of the caller thread
    selected_window,                    \* CroppingWindowCapturer::selected_window_
    capturer,                           \* CroppingWindowCapturerWin::capturer_
    should_use_screen_capturer_cache,   \* ...::should_use_screen_capturer_cache_
    window_region_rect,                 \* ...::window_region_rect_
    mag,                                \* magnifier members of the cropping capturer
    worker,                             \* windows_top_of_me_worker_ (WindowsTopOfMeWorker)
    wc,                                 \* base window_capturer_ (WindowCapturerWin)
    last,                               \* record of the caller operation in progress / last finished
    budget,                             \* remaining caller operations (-1: unlimited)
    advances                            \* clock advances made so far

vars == <<desk, opts, now, pc, selected_window, capturer,
          should_use_screen_capturer_cache, window_region_rect, mag, worker,
          wc, last, budget, advances>>

-----------------------------------------------------------------------------
(* Bounds of the model *)

\* number of clock advances (environment time steps and sleeps) explored
MaxAdvances == 2
\* caller operations explored from each initial desktop of ScanSpec
ScanBudget == 3
\* width of the millisecond clock in bits: rtc::Time32() is a uint32_t; the model
\* keeps its wrap-around arithmetic on a narrower counter, which still spans many
\* times the intervals the program measures (34 ms, 500 ms)
ClockBits == 16

-----------------------------------------------------------------------------
(* Program constants *)

kIgnoreCounter == 2
kLastMsThreshold == 500
kFullScreenTransitionTime == 34
\* frames captured with GDI before the graphics capturer is tried
kGdiFrames == 2
\* rtc::Time32() is an unsigned counter that wraps around
ClockModulus == 2 ^ ClockBits

NULL_HWND == "NULL"

-----------------------------------------------------------------------------
(* DesktopRect *)

MakeRect(l, t, r, b) == [l |-> l, t |-> t, r |-> r, b |-> b]

\* DesktopRect(): the default (empty) rectangle
DesktopRect0 == MakeRect(0, 0, 0, 0)

Max2(a, b) == IF a >= b THEN a ELSE b
Min2(a, b) == IF a <= b THEN a ELSE b

is_empty(rc) == rc.l >= rc.r \/ rc.t >= rc.b

\* DesktopRect::IntersectWith: an empty intersection is normalised to (0,0,0,0)
IntersectWith(a, b) ==
    LET x == MakeRect(Max2(a.l, b.l), Max2(a.t, b.t), Min2(a.r, b.r), Min2(a.b, b.b))
    IN  IF is_empty(x) THEN DesktopRect0 ELSE x

ContainsRect(outer, rc) ==
    /\ rc.l >= outer.l
    /\ rc.r <= outer.r
    /\ rc.t >= outer.t
    /\ rc.b <= outer.b

Translate(rc, dx, dy) == MakeRect(rc.l + dx, rc.t + dy, rc.r + dx, rc.b + dy)


-----------------------------------------------------------------------------
(* The desktop: window handles and the Win32 queries the program makes *)

\* a window handle that names no window
NoWindow ==
    [exists |-> FALSE, shown |-> FALSE, cloaked |-> FALSE, iconic |-> FALSE,
     notif |-> FALSE, title |-> "", pid |-> 0, tid |-> 0,
     parent |-> NULL_HWND, owner |-> NULL_HWND, caption |-> FALSE, cls |-> "",
     content_ok |-> FALSE, content |-> DesktopRect0,
     winrect_ok |-> FALSE, winrect |-> DesktopRect0,
     layered |-> FALSE, lattr |-> "none",
     rgn |-> "ERROR", rgnbox |-> DesktopRect0]

WinOf(d, hwnd) == IF hwnd \in DOMAIN d.win THEN d.win[hwnd] ELSE NoWindow

\* GetFullscreenRect(): the virtual screen
GetFullscreenRect == MakeRect(0, 0, 8, 8)

IsWindow(d, hwnd) == WinOf(d, hwnd).exists
IsWindowVisible(d, hwnd) == WinOf(d, hwnd).exists /\ WinOf(d, hwnd).shown
IsIconic(d, hwnd) == WinOf(d, hwnd).exists /\ WinOf(d, hwnd).iconic

\* WindowCaptureHelperWin::IsWindowVisibleOnCurrentDesktop: visible and not cloaked
IsWindowVisibleOnCurrentDesktop(d, hwnd) ==
    IsWindowVisible(d, hwnd) /\ ~WinOf(d, hwnd).cloaked

IsWindowChromeNotification(d, hwnd) == WinOf(d, hwnd).notif

GetWindowText(d, hwnd) == WinOf(d, hwnd).title
GetClassName(d, hwnd) == WinOf(d, hwnd).cls

\* GetWindowThreadProcessId: returns the thread id (0 on failure), stores the process id
GetWindowThreadId(d, hwnd) == WinOf(d, hwnd).tid
GetWindowProcessId(d, hwnd) == WinOf(d, hwnd).pid

\* GetParent: the parent of a child window, the owner of an owned top-level window
GetParent(d, hwnd) ==
    IF WinOf(d, hwnd).parent # NULL_HWND THEN WinOf(d, hwnd).parent
    ELSE WinOf(d, hwnd).owner

\* GetAncestor(hwnd, GA_ROOT): walks the chain of parent windows (owners excluded)
RECURSIVE GetAncestorRoot(_, _)
GetAncestorRoot(d, hwnd) ==
    IF ~IsWindow(d, hwnd) THEN NULL_HWND
    ELSE IF WinOf(d, hwnd).parent = NULL_HWND THEN hwnd
    ELSE GetAncestorRoot(d, WinOf(d, hwnd).parent)

\* GetAncestor(hwnd, GA_ROOTOWNER): walks the chain GetParent returns
RECURSIVE GetAncestorRootOwner(_, _)
GetAncestorRootOwner(d, hwnd) ==
    IF ~IsWindow(d, hwnd) THEN NULL_HWND
    ELSE IF GetParent(d, hwnd) = NULL_HWND THEN hwnd
    ELSE GetAncestorRootOwner(d, GetParent(d, hwnd))

\* GetWindowContentRect(hwnd, &rect)
GetWindowContentRect(d, hwnd) ==
    [ok |-> WinOf(d, hwnd).content_ok,
     rect |-> IF WinOf(d, hwnd).content_ok THEN WinOf(d, hwnd).content ELSE DesktopRect0]

\* GetWindowRect(hwnd, &rect)
GetWindowRect(d, hwnd) ==
    [ok |-> WinOf(d, hwnd).winrect_ok,
     rect |-> IF WinOf(d, hwnd).winrect_ok THEN WinOf(d, hwnd).winrect ELSE DesktopRect0]

\* EnumWindows: the top-level windows, top-down in z-order
EnumWindowsOrder(d) == d.z

\* the order in which handles are listed when the z-order does not decide it
HandleOrder == <<"S", "F", "G", "C", "D">>

\* EnumChildWindows(hwnd): the child windows of hwnd, in all generations
EnumChildWindowsOrder(d, hwnd) ==
    LET IsDescendant(w) ==
            /\ IsWindow(d, w)
            /\ w # hwnd
            /\ WinOf(d, w).parent # NULL_HWND
            /\ GetAncestorRoot(d, w) = hwnd
    IN  SelectSeq(HandleOrder, IsDescendant)

\* FindWindowEx(NULL, prev, cls, NULL) iterated: the top-level windows of a class
FindWindowsOfClass(d, cls) ==
    LET HasClass(w) == GetClassName(d, w) = cls
    IN  SelectSeq(d.z, HasClass)

\* ChildWindowsContains(hwnd, cls)
ChildWindowsContains(d, hwnd, cls) ==
    \E i \in 1..Len(EnumChildWindowsOrder(d, hwnd)) :
        GetClassName(d, EnumChildWindowsOrder(d, hwnd)[i]) = cls

SeqContains(seq, x) == \E i \in 1..Len(seq) : seq[i] = x

-----------------------------------------------------------------------------
(* win/selected_window_context.cc *)

SelectedWindowContext(d, selected, rect) ==
    [selected_window |-> selected,
     selected_window_rect |-> rect,
     selected_window_thread_id |-> GetWindowThreadId(d, selected),
     selected_window_process_id |-> GetWindowProcessId(d, selected)]

IsSelectedWindowValid(sc) == sc.selected_window_thread_id # 0

IsWindowSelected(sc, hwnd) == hwnd = sc.selected_window

\* an ownership test whose same-thread rule does not ask for a thread id
IsWindowOwnedAnyThread(d, sc, hwnd) ==
    \/ GetAncestorRootOwner(d, hwnd) = sc.selected_window
    \/ /\ GetWindowProcessId(d, hwnd) = sc.selected_window_process_id
       /\ GetWindowThreadId(d, hwnd) = sc.selected_window_thread_id

IsWindowOwned(d, sc, hwnd) ==
    \/ GetAncestorRootOwner(d, hwnd) = sc.selected_window
    \/ /\ GetWindowThreadId(d, hwnd) # 0
       /\ GetWindowProcessId(d, hwnd) = sc.selected_window_process_id
       /\ GetWindowThreadId(d, hwnd) = sc.selected_window_thread_id

\* walks GetParent upwards from hwnd until NULL or the selected window
RECURSIVE UWPAncestorWalk(_, _, _, _)
UWPAncestorWalk(d, sc, hwnd, it) ==
    IF it = NULL_HWND THEN FALSE
    ELSE IF GetParent(d, it) = sc.selected_window THEN ~WinOf(d, hwnd).caption
    ELSE UWPAncestorWalk(d, sc, hwnd, GetParent(d, it))

IsUWPAncestor(d, sc, hwnd) == UWPAncestorWalk(d, sc, hwnd, hwnd)

\* WindowCaptureHelperWin::IsWindowIntersectWithSelectedWindow
IsWindowOverlapping(d, sc, hwnd) ==
    /\ hwnd # sc.selected_window
    /\ GetWindowContentRect(d, hwnd).ok
    /\ ~is_empty(IntersectWith(GetWindowContentRect(d, hwnd).rect, sc.selected_window_rect))

-----------------------------------------------------------------------------
(* cropping_window_capturer_win.cc: the occlusion scan *)

TopWindowVerifierContext(d, selected, excluded, rect, allow_magnification) ==
    [selected_window |-> selected,
     excluded_window |-> excluded,
     selected_window_rect |-> rect,
     selected_window_title |-> GetWindowText(d, selected),
     selected_window_process_id |-> GetWindowProcessId(d, selected),
     allow_magnification_api_for_window_capture |-> allow_magnification,
     is_top_window |-> FALSE]

\* a scan that takes every window for its own ancestor
SelfAsAncestor(d, hwnd) == hwnd

\* the ancestor the scans compare with the selected window: GetAncestor(hwnd, GA_ROOT)
ScanAncestor(d, hwnd) == GetAncestorRoot(d, hwnd)

\* a heuristic that looks at the process only
IsProcessSibling(d, title, process_id, hwnd) ==
    process_id = GetWindowProcessId(d, hwnd)

\* the tooltip / context menu / sibling heuristic of both scans: no title or the
\* selected window's title, and the selected window's process
IsTitleProcessSibling(d, title, process_id, hwnd) ==
    /\ \/ GetWindowText(d, hwnd) = ""
       \/ GetWindowText(d, hwnd) = title
    /\ process_id = GetWindowProcessId(d, hwnd)

\* what TopWindowVerifier does when it visits the selected window
VerifierOnSelected(context) ==
    [ret |-> FALSE, context |-> [context EXCEPT !.is_top_window = TRUE]]

\* a verifier that passes over a window whose content rect cannot be read
LenientTopWindowVerifier(d, context, hwnd) ==
    IF hwnd = context.selected_window THEN VerifierOnSelected(context)
    ELSE IF hwnd = context.excluded_window THEN [ret |-> TRUE, context |-> context]
    ELSE IF ~IsWindowVisibleOnCurrentDesktop(d, hwnd) THEN [ret |-> TRUE, context |-> context]
    ELSE IF IsWindowChromeNotification(d, hwnd) THEN [ret |-> TRUE, context |-> context]
    ELSE IF ScanAncestor(d, hwnd) = context.selected_window
         THEN [ret |-> TRUE, context |-> context]
    ELSE IF IsTitleProcessSibling(d, context.selected_window_title,
                                  context.selected_window_process_id, hwnd)
         THEN [ret |-> TRUE, context |-> context]
    ELSE IF /\ context.allow_magnification_api_for_window_capture
            /\ GetClassName(d, hwnd) = "Windows.UI.Core.CoreWindow"
         THEN [ret |-> TRUE, context |-> context]
    ELSE IF ~GetWindowContentRect(d, hwnd).ok THEN [ret |-> TRUE, context |-> context]
    ELSE IF ~is_empty(IntersectWith(GetWindowContentRect(d, hwnd).rect,
                                    context.selected_window_rect))
         THEN [ret |-> FALSE, context |-> [context EXCEPT !.is_top_window = FALSE]]
    ELSE [ret |-> TRUE, context |-> context]

\* BOOL CALLBACK TopWindowVerifier(HWND hwnd, LPARAM param): ret is TRUE to go on
\* enumerating, FALSE to stop
TopWindowVerifier(d, context, hwnd) ==
    IF hwnd = context.selected_window THEN VerifierOnSelected(context)
    ELSE IF hwnd = context.excluded_window THEN [ret |-> TRUE, context |-> context]
    ELSE IF ~IsWindowVisibleOnCurrentDesktop(d, hwnd) THEN [ret |-> TRUE, context |-> context]
    ELSE IF IsWindowChromeNotification(d, hwnd) THEN [ret |-> TRUE, context |-> context]
    ELSE IF ScanAncestor(d, hwnd) = context.selected_window
         THEN [ret |-> TRUE, context |-> context]
    ELSE IF IsTitleProcessSibling(d, context.selected_window_title,
                                  context.selected_window_process_id, hwnd)
         THEN [ret |-> TRUE, context |-> context]
    ELSE IF /\ context.allow_magnification_api_for_window_capture
            /\ GetClassName(d, hwnd) = "Windows.UI.Core.CoreWindow"
         THEN [ret |-> TRUE, context |-> context]
    ELSE IF ~GetWindowContentRect(d, hwnd).ok
         THEN [ret |-> FALSE, context |-> [context EXCEPT !.is_top_window = FALSE]]
    ELSE IF ~is_empty(IntersectWith(GetWindowContentRect(d, hwnd).rect,
                                    context.selected_window_rect))
         THEN [ret |-> FALSE, context |-> [context EXCEPT !.is_top_window = FALSE]]
    ELSE [ret |-> TRUE, context |-> context]

\* EnumWindows / EnumChildWindows with TopWindowVerifier: the callback is called on
\* the handles in order until it returns FALSE; visits lists every call made
RECURSIVE EnumTopWindowVerifier(_, _, _, _)
EnumTopWindowVerifier(d, context, hwnds, visits) ==
    IF hwnds = <<>> THEN [context |-> context, visits |-> visits]
    ELSE LET r == TopWindowVerifier(d, context, Head(hwnds))
             v == Append(visits, [hwnd |-> Head(hwnds),
                                  is_top_window |-> r.context.is_top_window])
         IN  IF r.ret THEN EnumTopWindowVerifier(d, r.context, Tail(hwnds), v)
             ELSE [context |-> r.context, visits |-> v]

\* a layered-window test that refuses only on unreadable attributes
IsLayeredUnreadable(d, selected) ==
    WinOf(d, selected).layered /\ WinOf(d, selected).lattr = "fail"

\* the layered-window test of ShouldUseScreenCapturer: TRUE when the screen
\* capturer is refused
IsTranslucentLayered(d, selected) ==
    /\ WinOf(d, selected).layered
    /\ \/ WinOf(d, selected).lattr = "fail"          \* GetLayeredWindowAttributes fails
       \/ WinOf(d, selected).lattr = "colorkey"      \* flags & LWA_COLORKEY
       \/ WinOf(d, selected).lattr = "alpha"         \* (flags & LWA_ALPHA) && alpha < 255

\* the OS-version / Aero test at the head of ShouldUseScreenCapturer: TRUE when
\* the screen capturer is refused
AeroRefuses(o) == ~o.win8 /\ o.aero

\* the core_windows() loop of ShouldUseScreenCapturer
CoreWindowOverlaps(d, o, wk, rect) ==
    /\ wk.exists
    /\ o.win8
    /\ \E i \in 1..Len(wk.core_windows) :
          /\ GetWindowContentRect(d, wk.core_windows[i]).ok
          /\ ~is_empty(IntersectWith(GetWindowContentRect(d, wk.core_windows[i]).rect, rect))

NoScan(ret, wrr) ==
    [ret |-> ret, window_region_rect |-> wrr, scanned |-> FALSE,
     root_visits |-> <<>>, child_visits |-> <<>>]

\* the answer after the enumeration of the selected window's child windows
ChildScanResult(wrr, root, child) ==
    [ret |-> child.context.is_top_window, window_region_rect |-> wrr, scanned |-> TRUE,
     root_visits |-> root.visits, child_visits |-> child.visits]

\* the answer after the root enumeration: false when it reports not top-most,
\* otherwise that of the enumeration of the child windows (lines 518-529)
RootScanResult(d, selected, wrr, root) ==
    IF ~root.context.is_top_window
    THEN [ret |-> FALSE, window_region_rect |-> wrr, scanned |-> TRUE,
          root_visits |-> root.visits, child_visits |-> <<>>]
    ELSE ChildScanResult(wrr, root,
             EnumTopWindowVerifier(d, root.context, EnumChildWindowsOrder(d, selected), <<>>))

\* the tail of ShouldUseScreenCapturer: the root enumeration and, when it reports
\* top-most, the enumeration of the selected window's child windows
OcclusionScan(d, o, selected, content_rect, wrr) ==
    RootScanResult(d, selected, wrr,
        EnumTopWindowVerifier(d,
            TopWindowVerifierContext(d, selected, o.excluded_window, content_rect,
                                     o.allow_magnification /\ o.win8),
            EnumWindowsOrder(d), <<>>))

\* the region box of the selected window in screen coordinates (lines 475-477)
RegionRect(d, selected, wrr) == Translate(WinOf(d, selected).rgnbox, wrr.l, wrr.t)

\* a content rect that ignores the window's region
UnclippedContentRect(d, selected, wrr) == GetWindowContentRect(d, selected).rect

\* the content rect the occlusion scan compares with: clipped to the window's
\* region when the region is a simple rectangle (lines 456-487)
ClippedContentRect(d, selected, wrr) ==
    IF WinOf(d, selected).rgn = "SIMPLEREGION"
    THEN IntersectWith(GetWindowContentRect(d, selected).rect, RegionRect(d, selected, wrr))
    ELSE GetWindowContentRect(d, selected).rect

\* window_region_rect_ after the region test
ClippedRegionRect(d, selected, wrr) ==
    IF WinOf(d, selected).rgn = "SIMPLEREGION"
    THEN IntersectWith(wrr, RegionRect(d, selected, wrr))
    ELSE wrr

\* ShouldUseScreenCapturer from the full-screen test on (lines 489-529), with the
\* content rect and window_region_rect_ as the region test left them
ScanClipped(d, o, selected, wk, content_rect, wrr) ==
    IF ~ContainsRect(GetFullscreenRect, content_rect) THEN NoScan(FALSE, wrr)
    ELSE IF CoreWindowOverlaps(d, o, wk, content_rect) THEN NoScan(FALSE, wrr)
    ELSE OcclusionScan(d, o, selected, content_rect, wrr)

\* a ShouldUseScreenCapturer that does not look at the cache
RescanningShouldUseScreenCapturer(d, o, cache, selected, wrr, wk) ==
    IF AeroRefuses(o) THEN NoScan(FALSE, wrr)
    ELSE IF ~IsWindowVisibleOnCurrentDesktop(d, selected) THEN NoScan(FALSE, wrr)
    ELSE IF IsTranslucentLayered(d, selected) THEN NoScan(FALSE, wrr)
    ELSE IF wrr = DesktopRect0 THEN NoScan(FALSE, wrr)
    ELSE IF ~GetWindowContentRect(d, selected).ok THEN NoScan(FALSE, wrr)
    ELSE IF WinOf(d, selected).rgn \in {"COMPLEXREGION", "NULLREGION"} THEN NoScan(FALSE, wrr)
    ELSE ScanClipped(d, o, selected, wk, ClippedContentRect(d, selected, wrr),
                     ClippedRegionRect(d, selected, wrr))

\* bool CroppingWindowCapturerWin::ShouldUseScreenCapturer(): ret is the value
\* returned, window_region_rect the member after the call
ShouldUseScreenCapturer(d, o, cache, selected, wrr, wk) ==
    IF cache # "Empty" THEN NoScan(cache = "True", wrr)
    ELSE IF AeroRefuses(o) THEN NoScan(FALSE, wrr)
    ELSE IF ~IsWindowVisibleOnCurrentDesktop(d, selected) THEN NoScan(FALSE, wrr)
    ELSE IF IsTranslucentLayered(d, selected) THEN NoScan(FALSE, wrr)
    ELSE IF wrr = DesktopRect0 THEN NoScan(FALSE, wrr)
    ELSE IF ~GetWindowContentRect(d, selected).ok THEN NoScan(FALSE, wrr)
    ELSE IF WinOf(d, selected).rgn \in {"COMPLEXREGION", "NULLREGION"} THEN NoScan(FALSE, wrr)
    ELSE ScanClipped(d, o, selected, wk, ClippedContentRect(d, selected, wrr),
                     ClippedRegionRect(d, selected, wrr))

-----------------------------------------------------------------------------
(* cropping_window_capturer_win.cc: WindowsTopOfMeWorker *)

\* the worker before CaptureFrame creates it
NoWorker ==
    [exists |-> FALSE, ignore_counter |-> 0, thread |-> "none",
     selected_window |-> NULL_HWND, core_windows |-> <<>>,
     exclusion_window_list |-> <<>>, last_changed |-> 0]

\* WindowsTopOfMeWorker::WindowsTopOfMeWorker; selected_window_ is set by the
\* SelectWindow call that follows the construction
NewWorker ==
    [exists |-> TRUE, ignore_counter |-> kIgnoreCounter, thread |-> "none",
     selected_window |-> NULL_HWND, core_windows |-> <<>>,
     exclusion_window_list |-> <<>>, last_changed |-> 0]

\* rtc::Time32() - last_changed_ in uint32_t arithmetic
ElapsedSince(time, last_changed) == (time - last_changed) % ClockModulus

WindowsTopOfMeContext(d, selected) ==
    [selected_window |-> selected,
     selected_window_rect |-> GetWindowContentRect(d, selected).rect,
     selected_window_title |-> GetWindowText(d, selected),
     selected_window_process_id |-> GetWindowProcessId(d, selected),
     windows_top_of_me |-> <<>>]

\* BOOL CALLBACK WindowsTopOfMe(HWND hwnd, LPARAM param)
WindowsTopOfMe(d, context, hwnd) ==
    IF hwnd = context.selected_window THEN [ret |-> FALSE, context |-> context]
    ELSE IF ~IsWindowVisibleOnCurrentDesktop(d, hwnd) THEN [ret |-> TRUE, context |-> context]
    ELSE IF ScanAncestor(d, hwnd) = context.selected_window
         THEN [ret |-> TRUE, context |-> context]
    ELSE IF IsTitleProcessSibling(d, context.selected_window_title,
                                  context.selected_window_process_id, hwnd)
         THEN [ret |-> TRUE, context |-> context]
    ELSE IF ~GetWindowContentRect(d, hwnd).ok THEN [ret |-> TRUE, context |-> context]
    ELSE IF is_empty(IntersectWith(GetWindowContentRect(d, hwnd).rect,
                                   context.selected_window_rect))
         THEN [ret |-> TRUE, context |-> context]
    ELSE [ret |-> TRUE,
          context |-> [context EXCEPT !.windows_top_of_me = Append(@, hwnd)]]

\* EnumWindows(&WindowsTopOfMe, &context)
RECURSIVE EnumWindowsTopOfMe(_, _, _)
EnumWindowsTopOfMe(d, context, hwnds) ==
    IF hwnds = <<>> THEN context
    ELSE LET r == WindowsTopOfMe(d, context, Head(hwnds))
         IN  IF r.ret THEN EnumWindowsTopOfMe(d, r.context, Tail(hwnds))
             ELSE r.context

\* the FindWindowEx / DwmGetWindowAttribute loop of Run: the non-cloaked windows of
\* the core-window classes
FindCoreWindows(d) ==
    LET NotCloaked(w) == ~WinOf(d, w).cloaked
    IN  SelectSeq(FindWindowsOfClass(d, "Windows.UI.Core.CoreWindow")
                    \o FindWindowsOfClass(d, "Shell_InputSwitchTopLevelWindow"),
                  NotCloaked)

\* the Shell_TrayWnd block of Run: the windows appended to |windows|
FindTrayWindows(d, top_of_me) ==
    LET tray == FindWindowsOfClass(d, "Shell_TrayWnd")
        Candidate(w) == ~SeqContains(top_of_me, w) /\ IsWindowVisibleOnCurrentDesktop(d, w)
    IN  IF tray = <<>> \/ ~IsWindowVisibleOnCurrentDesktop(d, Head(tray)) THEN <<>>
        ELSE (IF SeqContains(top_of_me, Head(tray)) THEN <<>> ELSE <<Head(tray)>>)
             \o SelectSeq(FindWindowsOfClass(d, "TaskListThumbnailWnd"), Candidate)
             \o SelectSeq(FindWindowsOfClass(d, "#32768"), Candidate)
             \o SelectSeq(FindWindowsOfClass(d, "tooltips_class32"), Candidate)

\* a test that makes every scan store and stamp
AlwaysChanged(old_list, new_list) == TRUE

\* whether a tick stores the new list and stamps last_changed_
ListChanged(old_list, new_list) == old_list # new_list

\* a list built without removing the core windows the enumeration has found
UndedupedTopOfMe(d, core, context) ==
    LET Overlaps(w) ==
            /\ GetWindowContentRect(d, w).ok
            /\ ~is_empty(IntersectWith(GetWindowContentRect(d, w).rect,
                                       context.selected_window_rect))
    IN  context.windows_top_of_me
        \o SelectSeq(core \o FindTrayWindows(d, context.windows_top_of_me), Overlaps)

\* a list with the core and tray windows before the enumerated ones
SeededFirstTopOfMe(d, core, context) ==
    LET NotFound(w) == ~SeqContains(context.windows_top_of_me, w)
        Overlaps(w) ==
            /\ GetWindowContentRect(d, w).ok
            /\ ~is_empty(IntersectWith(GetWindowContentRect(d, w).rect,
                                       context.selected_window_rect))
    IN  SelectSeq(SelectSeq(core, NotFound)
                  \o FindTrayWindows(d, context.windows_top_of_me), Overlaps)
        \o context.windows_top_of_me

\* the windows above the selected one, then the core and tray windows the
\* enumeration did not find that overlap the selected window (lines 669-707)
OverlappingTopOfMe(d, core, context) ==
    LET NotFound(w) == ~SeqContains(context.windows_top_of_me, w)
        Overlaps(w) ==
            /\ GetWindowContentRect(d, w).ok
            /\ ~is_empty(IntersectWith(GetWindowContentRect(d, w).rect,
                                       context.selected_window_rect))
    IN  context.windows_top_of_me
        \o SelectSeq(SelectSeq(core, NotFound)
                     \o FindTrayWindows(d, context.windows_top_of_me), Overlaps)

\* the end of a pass: the list is stored and stamped when it differs (lines 709-712)
StoreList(o, wk, time, core, top_of_me) ==
    [wk EXCEPT
        !.core_windows = IF o.win8 THEN core ELSE @,
        !.exclusion_window_list =
            IF ListChanged(wk.exclusion_window_list, top_of_me) THEN top_of_me ELSE @,
        !.last_changed =
            IF ListChanged(wk.exclusion_window_list, top_of_me) THEN time ELSE @]

\* a pass with the core windows found (lines 665-712)
ScanFrom(d, o, wk, time, core) ==
    StoreList(o, wk, time, core,
        OverlappingTopOfMe(d, core,
            EnumWindowsTopOfMe(d, WindowsTopOfMeContext(d, wk.selected_window),
                               EnumWindowsOrder(d))))

\* one pass of the do-while body of WindowsTopOfMeWorker::Run at clock value time
RunScan(d, o, wk, time) ==
    ScanFrom(d, o, wk, time, IF o.win8 THEN FindCoreWindows(d) ELSE <<>>)

\* a SelectWindow that always takes the clearing branch
SelectWindowAlwaysClears(d, o, wk, window, is_using_magnifier, time) ==
    [wk EXCEPT !.selected_window = window,
               !.exclusion_window_list = <<>>,
               !.last_changed = 0,
               !.ignore_counter = kIgnoreCounter]

\* void WindowsTopOfMeWorker::SelectWindow(HWND window, const bool is_using_magnifier)
SelectWindow(d, o, wk, window, is_using_magnifier, time) ==
    [(IF is_using_magnifier
      THEN RunScan(d, o, [wk EXCEPT !.selected_window = window], time)
      ELSE [wk EXCEPT !.selected_window = window,
                      !.exclusion_window_list = <<>>,
                      !.last_changed = 0])
     EXCEPT !.ignore_counter = kIgnoreCounter]

\* a comparison that counts the last millisecond of the window as well
ChangedWithinInclusive(wk, time, in_last_ms) ==
    ElapsedSince(time, wk.last_changed) <= in_last_ms

\* the value IsChanged returns once the ignore counter is used up
ChangedWithin(wk, time, in_last_ms) == ElapsedSince(time, wk.last_changed) < in_last_ms

\* an IsChanged that consumes the change it reports
IsChangedConsuming(wk, time, in_last_ms, start_ok) ==
    IF wk.ignore_counter > 0
    THEN [ret |-> FALSE, worker |-> [wk EXCEPT !.ignore_counter = @ - 1]]
    ELSE [ret |-> ChangedWithin(wk, time, in_last_ms),
          worker |-> [wk EXCEPT !.last_changed = 0,
                                !.thread = IF @ = "none"
                                           THEN (IF start_ok THEN "running" ELSE "failed")
                                           ELSE @]]

\* an IsChanged that creates the thread before it looks at the ignore counter
IsChangedEagerStart(wk, time, in_last_ms, start_ok) ==
    IF wk.ignore_counter > 0
    THEN [ret |-> FALSE,
          worker |-> [wk EXCEPT !.ignore_counter = @ - 1,
                                !.thread = IF @ = "none" THEN "running" ELSE @]]
    ELSE [ret |-> ChangedWithin(wk, time, in_last_ms),
          worker |-> [wk EXCEPT !.thread = IF @ = "none"
                                           THEN (IF start_ok THEN "running" ELSE "failed")
                                           ELSE @]]

\* bool WindowsTopOfMeWorker::IsChanged(uint32_t in_last_ms); start_ok is whether
\* rtc::Thread::Start succeeds when the thread is created
IsChanged(wk, time, in_last_ms, start_ok) ==
    IF wk.ignore_counter > 0
    THEN [ret |-> FALSE, worker |-> [wk EXCEPT !.ignore_counter = @ - 1]]
    ELSE [ret |-> ChangedWithin(wk, time, in_last_ms),
          worker |-> [wk EXCEPT !.thread = IF @ = "none"
                                           THEN (IF start_ok THEN "running" ELSE "failed")
                                           ELSE @]]

-----------------------------------------------------------------------------
(* window_capturer_win.cc and win/windows_graphics_capturer.cc *)

NoFrame == [kind |-> "none", hwnd |-> NULL_HWND]

\* one Callback::OnCaptureResult(result, frame) call
Callback(result, kind, hwnd) == [result |-> result, frame |-> [kind |-> kind, hwnd |-> hwnd]]

Results == {"SUCCESS", "ERROR_TEMPORARY", "ERROR_PERMANENT"}

\* WindowCapturerWin after construction
NewWindowCapturer ==
    [window |-> NULL_HWND, frame_counter |-> 0, windows_graphics_capturer |-> NULL_HWND]

\* bool WindowCapturerWin::SelectSource(SourceId id)
WindowCapturerSelectSource(d, w, id) ==
    IF ~IsWindow(d, id) \/ ~IsWindowVisible(d, id) \/ IsIconic(d, id)
    THEN [ret |-> FALSE, wc |-> w]
    ELSE [ret |-> TRUE, wc |-> [w EXCEPT !.window = id, !.frame_counter = 0]]

\* what the environment decides during one WindowCapturerWin::CaptureFrame:
\*   dc_ok        GetWindowDC succeeds
\*   frame_ok     DesktopFrameWin::Create succeeds
\*   paint_ok     PrintWindow or BitBlt succeeds
\*   wgc_select   WindowsGraphicsCapturer::SelectSource: "ok", "fail_clean" (every COM
\*                pointer the destructor uses was set) or "fail_early" (it fails
\*                before frame_pool_ / graphics_capture_session_ are created)
\*   wgc_frame    WindowsGraphicsCapturer::CaptureFrame: "none" (no frame arrived yet),
\*                "fail" (a surface / copy step fails) or "ok"
CaptureInputs ==
    [dc_ok : BOOLEAN, frame_ok : BOOLEAN, paint_ok : BOOLEAN,
     wgc_select : {"ok", "fail_clean", "fail_early"},
     wgc_frame : {"none", "fail", "ok"}]

\* void WindowsGraphicsCapturer::CaptureFrame() of a session created for hwnd
WindowsGraphicsCapturerCaptureFrame(hwnd, in) ==
    IF in.wgc_frame = "ok" THEN <<Callback("SUCCESS", "wgc", hwnd)>>
    ELSE <<Callback("ERROR_TEMPORARY", "none", NULL_HWND)>>

\* the end of WindowCapturerWin::CaptureFrame, from "if (!result)" on
GdiCaptureTail(hwnd, paint_ok) ==
    IF paint_ok THEN <<Callback("SUCCESS", "gdi", hwnd)>>
    ELSE <<Callback("ERROR_TEMPORARY", "none", NULL_HWND), Callback("SUCCESS", "gdi", hwnd)>>

\* the GDI path of WindowCapturerWin::CaptureFrame, from GetWindowDC on
GdiCapture(hwnd, in) ==
    IF ~in.dc_ok THEN <<Callback("ERROR_TEMPORARY", "none", NULL_HWND)>>
    ELSE IF ~in.frame_ok THEN <<Callback("ERROR_TEMPORARY", "none", NULL_HWND)>>
    ELSE GdiCaptureTail(hwnd, in.paint_ok)

\* void WindowCapturerWin::CaptureFrame(): the capturer afterwards, the callbacks
\* made in order, and whether the call ran into the destructor of a half-built
\* WindowsGraphicsCapturer (a call through a null ComPtr)
WindowCapturerCaptureFrame(d, o, w, in) ==
    IF w.window = NULL_HWND
    THEN [wc |-> w, callbacks |-> <<Callback("ERROR_PERMANENT", "none", NULL_HWND)>>,
          crashed |-> FALSE]
    ELSE IF ~IsWindow(d, w.window)
    THEN [wc |-> w, callbacks |-> <<Callback("ERROR_PERMANENT", "none", NULL_HWND)>>,
          crashed |-> FALSE]
    ELSE IF ~GetWindowRect(d, w.window).ok
    THEN [wc |-> w, callbacks |-> <<Callback("ERROR_TEMPORARY", "none", NULL_HWND)>>,
          crashed |-> FALSE]
    ELSE IF is_empty(GetWindowRect(d, w.window).rect)
            \/ ~IsWindowVisibleOnCurrentDesktop(d, w.window)
    THEN [wc |-> w, callbacks |-> <<Callback("SUCCESS", "black", w.window)>>,
          crashed |-> FALSE]
    ELSE IF w.frame_counter < kGdiFrames
    THEN [wc |-> [w EXCEPT !.frame_counter = @ + 1],
          callbacks |-> GdiCapture(w.window, in), crashed |-> FALSE]
    ELSE IF ~(o.allow_windows_graphics_capturer /\ o.wgc_supported)
    THEN [wc |-> w, callbacks |-> GdiCapture(w.window, in), crashed |-> FALSE]
    ELSE IF w.windows_graphics_capturer # NULL_HWND
    THEN [wc |-> w,
          callbacks |-> WindowsGraphicsCapturerCaptureFrame(w.windows_graphics_capturer, in),
          crashed |-> FALSE]
    ELSE IF in.wgc_select = "ok"
    THEN [wc |-> [w EXCEPT !.windows_graphics_capturer = w.window],
          callbacks |-> WindowsGraphicsCapturerCaptureFrame(w.window, in),
          crashed |-> FALSE]
    ELSE IF in.wgc_select = "fail_early"
    THEN [wc |-> w, callbacks |-> <<>>, crashed |-> TRUE]
    ELSE [wc |-> w, callbacks |-> GdiCapture(w.window, in), crashed |-> FALSE]

-----------------------------------------------------------------------------
(* cropping_window_capturer_win.cc: CroppingWindowCapturerWin.  The operators  *)
(* below thread a record c of the capturer's members through the code:        *)
(* c.selected_window, c.capturer, c.cache, c.window_region_rect, c.mag,       *)
(* c.worker, c.wc, c.now, c.advances, c.pc and the bookkeeping record c.last. *)

\* bookkeeping of one caller operation: what it decided, called and delivered
NoDecision == NoScan(FALSE, DesktopRect0)

\* an IsChanged call: the clock, last_changed_ and ignore_counter_ it found, the
\* window it was asked about and the value it returned
\* nth is the number of IsChanged calls made since the worker was bound, counted
\* up to kIgnoreCounter + 1
NoQuery ==
    [asked |-> FALSE, time |-> 0, last_changed |-> 0, ignore_counter |-> 0,
     in_last_ms |-> 0, ret |-> FALSE, nth |-> 0]

LastRecord(op, prev_capturer, after_hysteresis) ==
    [op |-> op,                          \* "none", "select", "capture", "bind", "query"
     prev_capturer |-> prev_capturer,    \* capturer_ when the operation began
     after_hysteresis |-> after_hysteresis, \* the previous operation was a hysteresis drop
     select_ret |-> FALSE,               \* value returned by SelectSource
     cf_changed |-> "n/a",               \* IsChanged in CaptureFrame: "n/a", "true", "false"
     ocr_changed |-> "n/a",              \* IsChanged in OnCaptureResult
     query |-> NoQuery,                  \* the IsChanged call of WorkerIsChanged
     ocr_exit |-> "n/a",                 \* the cache when OnCaptureResult returned
     dcheck_ok |-> TRUE,                 \* RTC_DCHECK(cache == Empty) of CaptureFrame
     use_screen |-> "n/a",               \* the decision of CaptureFrame
     decision |-> NoDecision,            \* the ShouldUseScreenCapturer call that made it
     scans |-> 0,                        \* occlusion scans run
     slept |-> 0,                        \* milliseconds slept
     backends |-> <<>>,                  \* backend CaptureFrame calls, in order
     wc_callbacks |-> <<>>,              \* callbacks made by each window capturer call
     delivered |-> <<>>]                 \* OnCaptureResult calls received by the consumer

NewMagnifier ==
    [selected_window_should_use_magnifier |-> FALSE,
     cant_get_screen_magnifier_capturer_worker |-> FALSE,
     screen_magnifier_capturer_worker |-> FALSE,
     offset |-> [x |-> 0, y |-> 0]]

\* DesktopRect CroppingWindowCapturerWin::GetWindowRectInVirtualScreen(const bool magnifier)
GetWindowRectInVirtualScreen(d, c, magnifier) ==
    IF ~GetWindowRect(d, c.selected_window).ok THEN DesktopRect0
    ELSE LET cropped == IntersectWith(GetWindowRect(d, c.selected_window).rect,
                                      c.window_region_rect)
             moved == IF magnifier /\ c.mag.screen_magnifier_capturer_worker
                      THEN Translate(cropped, c.mag.offset.x, c.mag.offset.y)
                      ELSE cropped
             screen_rect == GetFullscreenRect
         IN  Translate(IntersectWith(moved, screen_rect), -screen_rect.l, -screen_rect.t)

\* bool CroppingWindowCapturerWin::ShouldUseMagnifier()
ShouldUseMagnifier(d, o, c) ==
    /\ o.allow_magnification
    /\ c.mag.selected_window_should_use_magnifier
    /\ \/ ~c.mag.screen_magnifier_capturer_worker
       \/ ~is_empty(GetWindowRectInVirtualScreen(d, c, TRUE))

Deliver(c, callbacks) == [c EXCEPT !.last.delivered = @ \o callbacks]

\* window_capturer_->CaptureFrame(): its callbacks go to the consumer
WindowCapture(d, o, c, in) ==
    LET Captured(r) ==
            [c EXCEPT !.wc = r.wc,
                      !.last.backends = Append(@, "Window"),
                      !.last.wc_callbacks = Append(@, Len(r.callbacks)),
                      !.last.delivered = @ \o r.callbacks,
                      !.pc = IF r.crashed THEN "crashed" ELSE @]
    IN  Captured(WindowCapturerCaptureFrame(d, o, c.wc, in))

\* a ShouldUseScreenCapturer() call made through the base class
CallShouldUseScreenCapturer(d, o, c) ==
    ShouldUseScreenCapturer(d, o, c.cache, c.selected_window, c.window_region_rect, c.worker)

\* the capturer after a ShouldUseScreenCapturer() call that answered su
AfterDecision(c, su) ==
    [c EXCEPT !.window_region_rect = su.window_region_rect,
              !.last.scans = @ + (IF su.scanned THEN 1 ELSE 0)]

\* what the base class hands to the consumer for a screen frame
ReportedResult(d, c, result, frame) ==
    IF result # "SUCCESS" THEN <<[result |-> result, frame |-> NoFrame]>>
    ELSE IF is_empty(GetWindowRectInVirtualScreen(d, c, c.capturer = "Magnifier"))
         THEN <<[result |-> "ERROR_TEMPORARY", frame |-> NoFrame]>>
    ELSE <<[result |-> result, frame |-> frame]>>

\* the base class's OnCaptureResult once ShouldUseScreenCapturer() has answered
OnCaptureResultDecided(d, o, c, use_screen, result, frame, in) ==
    IF ~use_screen THEN WindowCapture(d, o, c, in)
    ELSE Deliver(c, ReportedResult(d, c, result, frame))

\* the base class's CaptureFrame once ShouldUseScreenCapturer() has answered
CaptureFrameDecided(d, o, c, use_screen, in) ==
    IF use_screen
    THEN [c EXCEPT !.last.backends = Append(@, "Screen"), !.pc = "screen"]
    ELSE WindowCapture(d, o, c, in)

\* void CroppingWindowCapturer::OnCaptureResult(result, screen_frame) of the base class
BaseOnCaptureResult(d, o, c, result, frame, in) ==
    OnCaptureResultDecided(d, o, AfterDecision(c, CallShouldUseScreenCapturer(d, o, c)),
                           CallShouldUseScreenCapturer(d, o, c).ret, result, frame, in)

\* void CroppingWindowCapturer::CaptureFrame() of the base class: the screen
\* capturer answers later, through OnCaptureResult
BaseCaptureFrame(d, o, c, in) ==
    CaptureFrameDecided(d, o, AfterDecision(c, CallShouldUseScreenCapturer(d, o, c)),
                        CallShouldUseScreenCapturer(d, o, c).ret, in)

\* a windows_top_of_me_worker_->IsChanged(kLastMsThreshold) call
IsChangedCall(c, start_ok) ==
    LET r == IsChanged(c.worker, c.now, kLastMsThreshold, start_ok)
    IN  [ret |-> r.ret, c |-> [c EXCEPT !.worker = r.worker]]

\* the capturer without the pin of the cache
NoPinCache(c) == c

\* "hack so CroppingWindowCapturer::OnCaptureResult doesn't fallback to window
\* capturer": should_use_screen_capturer_cache_ = True (lines 806 and 863)
PinCache(c) == [c EXCEPT !.cache = "True"]

\* a path that leaves the cache as it is
NoCacheReset(c) == c

\* should_use_screen_capturer_cache_ = Empty at the end of a path
CacheReset(c) == [c EXCEPT !.cache = "Empty"]

\* CroppingWindowCapturer::OnCaptureResult(Result::ERROR_TEMPORARY, nullptr) followed
\* by the reset of the cache: the end of both debounce paths and of the hysteresis path
DropFrame(d, o, c, in) ==
    LET Finish(reported) == IF reported.pc = "crashed" THEN reported ELSE CacheReset(reported)
    IN  Finish(BaseOnCaptureResult(d, o, c, "ERROR_TEMPORARY", NoFrame, in))

\* the capturer after an IsChanged query answered q; field is where the answer
\* is recorded
AfterQuery(c, q, field) ==
    IF c.worker.exists
    THEN [q.c EXCEPT !.last[field] = IF q.ret THEN "true" ELSE "false"]
    ELSE c

\* an end of OnCaptureResult: the cache is reset unless the call crashed
ResetUnlessCrashed(c) == IF c.pc = "crashed" THEN c ELSE CacheReset(c)

\* OnCaptureResult when the window order did not change: the magnifier's offset
\* is read from the frame, the base class runs, the cache is reset (lines 874-880)
ForwardResult(d, o, c, result, frame, in) ==
    IF c.capturer = "Magnifier" /\ frame = NoFrame
    THEN [c EXCEPT !.pc = "crashed"]   \* screen_frame->top_left() on nullptr
    ELSE ResetUnlessCrashed(
             BaseOnCaptureResult(d, o,
                 IF c.capturer = "Magnifier"
                 THEN [c EXCEPT !.mag.offset = o.mag_top_left] ELSE c,
                 result, frame, in))

\* OnCaptureResult after the IsChanged query (lines 864-880)
OnCaptureResultQueried(d, o, c, changed, result, frame, in) ==
    IF changed THEN DropFrame(d, o, c, in)
    ELSE ForwardResult(d, o, c, result, frame, in)

\* OnCaptureResult after the pin of the cache (lines 864-880)
OnCaptureResultPinned(d, o, c, result, frame, start_ok, in) ==
    OnCaptureResultQueried(d, o,
        AfterQuery(c, IsChangedCall(c, start_ok), "ocr_changed"),
        c.worker.exists /\ IsChangedCall(c, start_ok).ret,
        result, frame, in)

\* void CroppingWindowCapturerWin::OnCaptureResult(result, screen_frame)
OnCaptureResult(d, o, c, result, frame, start_ok, in) ==
    OnCaptureResultPinned(d, o, PinCache(c), result, frame, start_ok, in)

\* a capturer that never waits for the transition
NoHysteresis(c) == FALSE

\* a hysteresis test that asks only that the last backend was not the screen capturer
HysteresisUnlessScreen(c) == c.capturer # "Screen" /\ c.cache = "True"

\* CaptureFrame from the hysteresis test on (lines 831-856)
HysteresisApplies(c) ==
    c.capturer # "Unknown" /\ c.capturer # "Screen" /\ c.cache = "True"

HysteresisDrop(d, o, c, in) ==
    LET slept == [c EXCEPT !.now = (@ + kFullScreenTransitionTime) % ClockModulus,
                           !.advances = @ + 1,
                           !.last.slept = kFullScreenTransitionTime,
                           !.capturer = "Screen"]
    IN  DropFrame(d, o, slept, in)

DelegatedCapture(d, o, c, in) ==
    LET chosen == [c EXCEPT !.capturer = CASE c.cache = "True" -> "Screen"
                                           [] c.cache = "False" -> "Window"
                                           [] OTHER -> "Unknown"]
        Finish(captured) == IF captured.pc # "idle" THEN captured ELSE CacheReset(captured)
    IN  Finish(BaseCaptureFrame(d, o, chosen, in))

CaptureTail(d, o, c, in) ==
    IF HysteresisApplies(c) THEN HysteresisDrop(d, o, c, in)
    ELSE DelegatedCapture(d, o, c, in)

\* the decision of CaptureFrame (lines 812-814)
Decide(d, o, c) ==
    LET Answered(su) ==
            [c EXCEPT !.last.dcheck_ok = (c.cache = "Empty"),
                      !.window_region_rect = su.window_region_rect,
                      !.cache = IF su.ret THEN "True" ELSE "False",
                      !.last.use_screen = IF su.ret THEN "true" ELSE "false",
                      !.last.decision = su,
                      !.last.scans = @ + (IF su.scanned THEN 1 ELSE 0)]
    IN  Answered(CallShouldUseScreenCapturer(d, o, c))

\* the test that opens the magnifier block (lines 816-817)
WantsMagnifier(d, o, c) ==
    /\ ShouldUseMagnifier(d, o, c)
    /\ ~c.mag.cant_get_screen_magnifier_capturer_worker
    /\ c.cache = "False"

\* the worker is fetched when there is none yet (lines 818-824)
GetMagnifierWorker(c, wanted, got_worker) ==
    IF ~wanted \/ c.mag.screen_magnifier_capturer_worker THEN c
    ELSE [c EXCEPT !.mag.screen_magnifier_capturer_worker = got_worker,
                   !.mag.cant_get_screen_magnifier_capturer_worker = ~got_worker]

\* with a worker the magnifier captures (lines 825-828), otherwise CaptureFrame goes on
MagnifierElseTail(d, o, c, wanted, in) ==
    IF wanted /\ c.mag.screen_magnifier_capturer_worker
    THEN [c EXCEPT !.capturer = "Magnifier",
                   !.last.backends = Append(@, "Magnifier"),
                   !.pc = "mag"]
    ELSE CaptureTail(d, o, c, in)

\* the magnifier block of CaptureFrame (lines 816-829); got_worker is whether
\* ScreenCapturerWinMagnifierWorker::Get() returns a worker
MagnifierOrTail(d, o, c, got_worker, in) ==
    MagnifierElseTail(d, o, GetMagnifierWorker(c, WantsMagnifier(d, o, c), got_worker),
                      WantsMagnifier(d, o, c), in)

\* the start of CaptureFrame: window_region_rect_ is read (lines 784-787)
BeginCapture(d, c) ==
    [c EXCEPT !.last = LastRecord("capture", c.capturer,
                                  c.last.op = "capture" /\ c.last.slept > 0),
              !.window_region_rect = GetWindowRect(d, c.selected_window).rect]

\* the worker is created and bound on the first capture (lines 789-796)
CreateWorker(d, o, c) ==
    IF o.allow_magnification /\ ~c.worker.exists
    THEN [c EXCEPT !.worker =
             SelectWindow(d, o, NewWorker, c.selected_window,
                          c.mag.selected_window_should_use_magnifier, c.now)]
    ELSE c

\* a CaptureFrame whose debounce branch switches to the screen capturer
CaptureFrameQueriedSwitching(d, o, c, changed, got_worker, in) ==
    IF changed THEN DropFrame(d, o, PinCache([c EXCEPT !.capturer = "Screen"]), in)
    ELSE MagnifierOrTail(d, o, Decide(d, o, c), got_worker, in)

\* CaptureFrame after the IsChanged query (lines 798-856)
CaptureFrameQueried(d, o, c, changed, got_worker, in) ==
    IF changed THEN DropFrame(d, o, PinCache(c), in)
    ELSE MagnifierOrTail(d, o, Decide(d, o, c), got_worker, in)

\* CaptureFrame once the worker exists (lines 798-856)
CaptureFrameBound(d, o, c, start_ok, got_worker, in) ==
    CaptureFrameQueried(d, o,
        AfterQuery(c, IsChangedCall(c, start_ok), "cf_changed"),
        c.worker.exists /\ IsChangedCall(c, start_ok).ret,
        got_worker, in)

\* void CroppingWindowCapturerWin::CaptureFrame(), up to the point where it waits
\* for the screen or magnifier backend
CaptureFrameOp(d, o, c, start_ok, got_worker, in) ==
    CaptureFrameBound(d, o, CreateWorker(d, o, BeginCapture(d, c)),
                      start_ok, got_worker, in)

\* bool CroppingWindowCapturer::SelectSource(SourceId id) of the base class
BaseSelectSource(d, c, id) ==
    LET r == WindowCapturerSelectSource(d, c.wc, id)
    IN  [c EXCEPT !.wc = r.wc,
                  !.selected_window = IF r.ret THEN id ELSE @,
                  !.last.select_ret = r.ret]

\* the class test of SelectSource (lines 759-773)
SelectedWindowShouldUseMagnifier(d, o, hwnd) ==
    \/ o.win8 /\ GetClassName(d, hwnd) = "ApplicationFrameWindow"
    \/ GetClassName(d, hwnd) = "screenClass"
    \/ ChildWindowsContains(d, hwnd, "Intermediate D3D Window")

\* capturer_ = Unknown and the result of the class test (lines 752-773)
ResetCapturer(c, use_magnifier) ==
    [c EXCEPT !.last = LastRecord("select", c.capturer, FALSE),
              !.capturer = "Unknown",
              !.mag.selected_window_should_use_magnifier = use_magnifier]

\* windows_top_of_me_worker_->SelectWindow(hwnd, ...) when the worker exists
\* (lines 775-778)
BindWorker(d, o, c, id) ==
    IF c.worker.exists
    THEN [c EXCEPT !.worker =
             SelectWindow(d, o, @, id, c.mag.selected_window_should_use_magnifier, c.now)]
    ELSE c

\* bool CroppingWindowCapturerWin::SelectSource(SourceId id)
SelectSourceOp(d, o, c, id) ==
    BaseSelectSource(d,
        BindWorker(d, o, ResetCapturer(c, SelectedWindowShouldUseMagnifier(d, o, id)), id),
        id)

-----------------------------------------------------------------------------
(* The desktops and options the model explores.  "S" is the window the consumer *)
(* selects, "F" a second top-level window, "C" a child window of S.             *)

Win0 ==
    [NoWindow EXCEPT !.exists = TRUE, !.shown = TRUE, !.caption = TRUE,
                     !.content_ok = TRUE, !.winrect_ok = TRUE]

\* the selected application window: window rect (1,1)-(7,7), content (2,2)-(6,6)
SelectedWin ==
    [Win0 EXCEPT !.title = "app", !.pid = 1, !.tid = 1, !.cls = "AppClass",
                 !.winrect = MakeRect(1, 1, 7, 7), !.content = MakeRect(2, 2, 6, 6)]

\* a window of another application that covers part of S
ForeignWin ==
    [Win0 EXCEPT !.title = "other", !.pid = 2, !.tid = 2, !.cls = "OtherClass",
                 !.winrect = MakeRect(4, 3, 5, 5), !.content = MakeRect(4, 3, 5, 5)]

\* a child window of S
ChildWin ==
    [Win0 EXCEPT !.title = "child", !.pid = 1, !.tid = 1, !.cls = "ChildClass",
                 !.parent = "S", !.caption = FALSE,
                 !.winrect = MakeRect(3, 3, 5, 5), !.content = MakeRect(3, 3, 5, 5)]

\* ways the selected window varies
SVariants ==
    {"normal", "hidden", "cloaked", "layered_fail", "layered_colorkey", "layered_alpha",
     "layered_opaque", "layered_off", "rgn_complex", "rgn_null", "rgn_simple",
     "rgn_simple_wide", "rgn_simple_offscreen", "rgn_simple_outside",
     "no_content", "no_rect", "degenerate", "offscreen", "screenClass", "uwp", "closed"}

SWin(sv) ==
    CASE sv = "hidden" -> [SelectedWin EXCEPT !.shown = FALSE]
      [] sv = "cloaked" -> [SelectedWin EXCEPT !.cloaked = TRUE]
      [] sv = "layered_fail" -> [SelectedWin EXCEPT !.layered = TRUE, !.lattr = "fail"]
      [] sv = "layered_colorkey" -> [SelectedWin EXCEPT !.layered = TRUE, !.lattr = "colorkey"]
      [] sv = "layered_alpha" -> [SelectedWin EXCEPT !.layered = TRUE, !.lattr = "alpha"]
      [] sv = "layered_opaque" -> [SelectedWin EXCEPT !.layered = TRUE, !.lattr = "opaque"]
      [] sv = "layered_off" -> [SelectedWin EXCEPT !.lattr = "alpha"]
      [] sv = "rgn_complex" -> [SelectedWin EXCEPT !.rgn = "COMPLEXREGION"]
      [] sv = "rgn_null" -> [SelectedWin EXCEPT !.rgn = "NULLREGION"]
      [] sv = "rgn_simple" ->
            [SelectedWin EXCEPT !.rgn = "SIMPLEREGION", !.rgnbox = MakeRect(0, 0, 3, 6)]
      [] sv = "rgn_simple_wide" ->
            [SelectedWin EXCEPT !.rgn = "SIMPLEREGION", !.rgnbox = MakeRect(0, 0, 4, 6)]
      [] sv = "rgn_simple_offscreen" ->
            [SelectedWin EXCEPT !.winrect = MakeRect(4, 1, 10, 7),
                                !.content = MakeRect(5, 2, 9, 6),
                                !.rgn = "SIMPLEREGION", !.rgnbox = MakeRect(0, 0, 4, 6)]
      [] sv = "rgn_simple_outside" ->
            [SelectedWin EXCEPT !.winrect = MakeRect(4, 1, 10, 7),
                                !.content = MakeRect(5, 2, 9, 6),
                                !.rgn = "SIMPLEREGION", !.rgnbox = MakeRect(0, 0, 6, 6)]
      [] sv = "no_content" -> [SelectedWin EXCEPT !.content_ok = FALSE]
      [] sv = "no_rect" -> [SelectedWin EXCEPT !.winrect_ok = FALSE]
      [] sv = "degenerate" ->
            [SelectedWin EXCEPT !.winrect = MakeRect(3, 3, 3, 5),
                                !.content = MakeRect(3, 3, 3, 5)]
      [] sv = "offscreen" ->
            [SelectedWin EXCEPT !.winrect = MakeRect(4, 1, 10, 7),
                                !.content = MakeRect(5, 2, 9, 6)]
      [] sv = "screenClass" -> [SelectedWin EXCEPT !.cls = "screenClass"]
      [] sv = "uwp" -> [SelectedWin EXCEPT !.cls = "ApplicationFrameWindow"]
      [] sv = "closed" -> NoWindow
      [] OTHER -> SelectedWin

\* ways the second top-level window varies
FBaseline ==
    [kind |-> "plain", ident |-> "other_app", geom |-> "overlap", cls |-> "OtherClass",
     owner |-> NULL_HWND, above |-> TRUE]

FSpace ==
    [kind : {"plain", "hidden", "cloaked", "notif", "excluded"},
     ident : {"other_app", "same_title_same_process", "no_title_same_process",
              "other_title_same_process", "same_title_other_process"},
     geom : {"overlap", "touch", "empty", "unreadable"},
     cls : {"OtherClass", "Windows.UI.Core.CoreWindow"},
     owner : {NULL_HWND, "S"},
     above : BOOLEAN]

Deviations(fv) ==
    Cardinality({k \in DOMAIN fv : fv[k] # FBaseline[k]})

FWin(fv) ==
    [ForeignWin EXCEPT
        !.shown = fv.kind # "hidden",
        !.cloaked = fv.kind = "cloaked",
        !.notif = fv.kind = "notif",
        !.title = CASE fv.ident \in {"same_title_same_process", "same_title_other_process"}
                         -> "app"
                    [] fv.ident = "no_title_same_process" -> ""
                    [] OTHER -> "other",
        !.pid = IF fv.ident \in {"other_app", "same_title_other_process"} THEN 2 ELSE 1,
        !.tid = IF fv.ident \in {"other_app", "same_title_other_process"} THEN 2 ELSE 3,
        !.cls = fv.cls,
        !.owner = fv.owner,
        !.content_ok = fv.geom # "unreadable",
        !.content = CASE fv.geom = "touch" -> MakeRect(6, 2, 7, 6)
                      [] fv.geom = "empty" -> MakeRect(4, 3, 4, 5)
                      [] OTHER -> MakeRect(4, 3, 5, 5),
        !.winrect = IF fv.geom = "touch" THEN MakeRect(6, 2, 7, 6) ELSE MakeRect(4, 3, 5, 5)]

\* a desktop with S alone
DeskS(sv) ==
    [z |-> IF sv = "closed" THEN <<>> ELSE <<"S">>, win |-> [h \in {"S"} |-> SWin(sv)]]

\* a desktop with S and F
DeskSF(sv, fv) ==
    [z |-> IF sv = "closed" THEN <<"F">>
           ELSE IF fv.above THEN <<"F", "S">> ELSE <<"S", "F">>,
     win |-> [h \in {"S", "F"} |-> IF h = "S" THEN SWin(sv) ELSE FWin(fv)]]

\* ways the child window of S varies
CVariants == {"overlap", "no_title", "hidden", "unreadable"}

CWin(cv) ==
    CASE cv = "no_title" -> [ChildWin EXCEPT !.title = ""]
      [] cv = "hidden" -> [ChildWin EXCEPT !.shown = FALSE]
      [] cv = "unreadable" -> [ChildWin EXCEPT !.content_ok = FALSE]
      [] OTHER -> ChildWin

\* a desktop with S, a child window of S and (when with_f) F
DeskSC(cv, with_f, fv) ==
    [z |-> IF ~with_f THEN <<"S">>
           ELSE IF fv.above THEN <<"F", "S">> ELSE <<"S", "F">>,
     win |-> [h \in (IF with_f THEN {"S", "C", "F"} ELSE {"S", "C"}) |->
                 CASE h = "S" -> SelectedWin
                   [] h = "C" -> CWin(cv)
                   [] OTHER -> FWin(fv)]]

\* the window the desktop's F variation asks the capturer to exclude
ExcludedOf(fv) == IF fv.kind = "excluded" THEN "F" ELSE NULL_HWND

\* DesktopCaptureOptions, the OS version and the composition (Aero) state
Options(win8, aero, allow_magnification, excluded, wgc) ==
    [win8 |-> win8, aero |-> aero, allow_magnification |-> allow_magnification,
     excluded_window |-> excluded,
     allow_windows_graphics_capturer |-> wgc, wgc_supported |-> wgc /\ win8,
     mag_top_left |-> [x |-> 0, y |-> 0]]

-----------------------------------------------------------------------------
(* The state machine *)

\* the desktops of Spec: an application (S plain, or S rendering through Direct3D
\* with class "screenClass") and what else is on the desktop
Apps == {"normal", "screenClass"}
Arrangements == {"alone", "F_above", "dialog_above", "S_closed"}

\* a dialog box owned by S: a top-level window of S's process with its own title
DialogVariant ==
    [FBaseline EXCEPT !.ident = "other_title_same_process", !.owner = "S"]

MainDesk(app, arr) ==
    LET base == CASE arr = "alone" -> DeskS(app)
                  [] arr = "F_above" -> DeskSF(app, FBaseline)
                  [] arr = "dialog_above" -> DeskSF(app, DialogVariant)
                  [] OTHER -> DeskSF("closed", FBaseline)
    IN  [z |-> base.z, win |-> base.win, app |-> app, arr |-> arr]

Desktops == {MainDesk(app, arr) : app \in Apps, arr \in Arrangements \ {"S_closed"}}

\* what the desktop can turn into: windows come, go and are restacked; a closed
\* window stays closed
DeskChoices(d) ==
    IF d.arr = "S_closed" THEN {}
    ELSE {MainDesk(d.app, arr) : arr \in Arrangements \ {d.arr}}

OptionSets ==
    {Options(TRUE, TRUE, TRUE, NULL_HWND, FALSE),
     Options(TRUE, TRUE, FALSE, NULL_HWND, TRUE),
     Options(FALSE, TRUE, FALSE, NULL_HWND, FALSE),
     Options(FALSE, FALSE, FALSE, NULL_HWND, FALSE)}

\* clock values at construction: in the middle of the clock's range and shortly
\* before it wraps
StartTimes == {ClockModulus \div 2, ClockModulus - 300}

\* the steps the clock advances by
TimeSteps == {1, 499}

\* the windows the consumer selects
SourceIds == {"S"}

Constructed ==
    /\ pc = "idle"
    /\ selected_window = NULL_HWND
    /\ capturer = "Unknown"
    /\ should_use_screen_capturer_cache = "Empty"
    /\ window_region_rect = DesktopRect0
    /\ mag = NewMagnifier
    /\ worker = NoWorker
    /\ wc = NewWindowCapturer
    /\ last = LastRecord("none", "Unknown", FALSE)
    /\ advances = 0

Init ==
    /\ desk \in Desktops
    /\ opts \in OptionSets
    /\ now \in StartTimes
    /\ budget = -1
    /\ Constructed

\* the capturer's members as one record
Self ==
    [selected_window |-> selected_window, capturer |-> capturer,
     cache |-> should_use_screen_capturer_cache,
     window_region_rect |-> window_region_rect, mag |-> mag, worker |-> worker,
     wc |-> wc, now |-> now, advances |-> advances, pc |-> "idle", last |-> last]

Install(c) ==
    /\ selected_window' = c.selected_window
    /\ capturer' = c.capturer
    /\ should_use_screen_capturer_cache' = c.cache
    /\ window_region_rect' = c.window_region_rect
    /\ mag' = c.mag
    /\ worker' = c.worker
    /\ wc' = c.wc
    /\ now' = c.now
    /\ advances' = c.advances
    /\ pc' = c.pc
    /\ last' = c.last

Spend == budget' = IF budget > 0 THEN budget - 1 ELSE budget

\* the environment's choices an operation consumes
StartChoices(c) ==
    IF c.worker.exists /\ c.worker.thread = "none" /\ c.worker.ignore_counter = 0
    THEN BOOLEAN ELSE {TRUE}

WorkerChoices(c) ==
    IF opts.allow_magnification /\ ~c.mag.screen_magnifier_capturer_worker
          /\ ~c.mag.cant_get_screen_magnifier_capturer_worker
    THEN BOOLEAN ELSE {TRUE}

AllOk ==
    [dc_ok |-> TRUE, frame_ok |-> TRUE, paint_ok |-> TRUE,
     wgc_select |-> "ok", wgc_frame |-> "ok"]

\* the GDI steps fail one at a time
GdiChoices ==
    {in \in CaptureInputs :
        /\ in.wgc_select = "ok" /\ in.wgc_frame = "ok"
        /\ Cardinality({k \in {"dc_ok", "frame_ok", "paint_ok"} : ~in[k]}) <= 1}

\* the choices the window capturer consumes in its present state
InputChoices(c) ==
    IF c.wc.window = NULL_HWND THEN {AllOk}
    ELSE IF c.wc.frame_counter < kGdiFrames
            \/ ~(opts.allow_windows_graphics_capturer /\ opts.wgc_supported)
         THEN GdiChoices
    ELSE IF c.wc.windows_graphics_capturer # NULL_HWND
         THEN {[AllOk EXCEPT !.wgc_frame = f] : f \in {"none", "fail", "ok"}}
    ELSE {[AllOk EXCEPT !.wgc_frame = f] : f \in {"none", "fail", "ok"}}
         \cup {[AllOk EXCEPT !.wgc_select = "fail_early"]}
         \cup {[in EXCEPT !.wgc_select = "fail_clean"] : in \in GdiChoices}

\* the consumer calls SelectSource(id)
SelectSource(id) ==
    /\ pc = "idle"
    /\ budget # 0
    /\ Install(SelectSourceOp(desk, opts, Self, id))
    /\ Spend
    /\ UNCHANGED <<desk, opts>>

\* the consumer calls CaptureFrame(); the call either returns or waits for the
\* screen capturer or the magnifier
CaptureFrame ==
    /\ pc = "idle"
    /\ budget # 0
    /\ \E start_ok \in StartChoices(Self), got_worker \in WorkerChoices(Self),
          in \in InputChoices(Self) :
          LET Finish(c) == c.advances <= MaxAdvances /\ Install(c)
          IN  Finish(CaptureFrameOp(desk, opts, Self, start_ok, got_worker, in))
    /\ Spend
    /\ UNCHANGED <<desk, opts>>

\* OnCaptureResult has returned to the backend that called it
Returned(c) ==
    IF c.pc = "crashed" THEN c ELSE [c EXCEPT !.last.ocr_exit = c.cache]

\* the screen capturer answers: OnCaptureResult runs, then CaptureFrame returns
ScreenResult(result) ==
    /\ pc = "screen"
    /\ \E start_ok \in StartChoices(Self), in \in InputChoices(Self) :
          LET frame == IF result = "SUCCESS"
                       THEN [kind |-> "screen", hwnd |-> selected_window]
                       ELSE NoFrame
              Finish(c) == Install(IF c.pc = "crashed" THEN c ELSE CacheReset(c))
          IN  Finish(Returned(OnCaptureResult(desk, opts, Self, result, frame,
                                              start_ok, in)))
    /\ UNCHANGED <<desk, opts, budget>>

\* the magnifier worker answers: either SetExcludedWindows failed and CaptureFrame
\* goes on with the other capturers, or OnCaptureResult runs with the result
MagOutcomes == Results \cup {"SUCCESS_NO_FRAME", "NOT_CAPTURED"}

MagResult(outcome) ==
    /\ pc = "mag"
    /\ \E start_ok \in StartChoices(Self), in \in InputChoices(Self) :
          LET frame == IF outcome = "SUCCESS"
                       THEN [kind |-> "magnifier", hwnd |-> selected_window]
                       ELSE NoFrame
              result == IF outcome = "SUCCESS_NO_FRAME" THEN "SUCCESS" ELSE outcome
              Finish(c) == c.advances <= MaxAdvances /\ Install(c)
          IN  Finish(IF outcome = "NOT_CAPTURED"
                     THEN CaptureTail(desk, opts, Self, in)
                     ELSE Returned(OnCaptureResult(desk, opts, Self, result, frame,
                                                   start_ok, in)))
    /\ UNCHANGED <<desk, opts, budget>>

\* one pass of the worker thread's loop
WorkerTick ==
    /\ pc # "crashed"
    /\ worker.exists
    /\ worker.thread = "running"
    /\ worker' = RunScan(desk, opts, worker, now)
    /\ UNCHANGED <<desk, opts, now, pc, selected_window, capturer,
                   should_use_screen_capturer_cache, window_region_rect, mag,
                   wc, last, budget, advances>>

\* time passes
Advance(dt) ==
    /\ pc # "crashed"
    /\ advances < MaxAdvances
    /\ now' = (now + dt) % ClockModulus
    /\ advances' = advances + 1
    /\ UNCHANGED <<desk, opts, pc, selected_window, capturer,
                   should_use_screen_capturer_cache, window_region_rect, mag, worker,
                   wc, last, budget>>

\* windows are opened, closed or restacked
DesktopChange ==
    /\ pc # "crashed"
    /\ \E d \in DeskChoices(desk) : desk' = d
    /\ UNCHANGED <<opts, now, pc, selected_window, capturer,
                   should_use_screen_capturer_cache, window_region_rect, mag, worker,
                   wc, last, budget, advances>>

Next ==
    \/ \E id \in SourceIds : SelectSource(id)
    \/ CaptureFrame
    \/ \E result \in Results : ScreenResult(result)
    \/ \E outcome \in MagOutcomes : MagResult(outcome)
    \/ WorkerTick
    \/ \E dt \in TimeSteps : Advance(dt)
    \/ DesktopChange

Spec == Init /\ [][Next]_vars

-----------------------------------------------------------------------------
(* A second specification for the occlusion scan: the capturer is constructed on *)
(* one of many frozen desktops and the consumer makes ScanBudget calls.          *)

\* the F variations explored: at most two attributes differ from the baseline
FVariants == {fv \in FSpace : Deviations(fv) <= 2}

ScanOptions(excluded) ==
    {Options(flags[1], flags[2], flags[3], excluded, FALSE) :
        flags \in BOOLEAN \X BOOLEAN \X BOOLEAN}

\* desktop / option pairs: F varies under a normal S; S varies with F absent, above
\* and below; a child window of S varies with F absent and below
ScanInputs ==
    UNION {{[desk |-> DeskSF("normal", fv), opts |-> o] : o \in ScanOptions(ExcludedOf(fv))} :
             fv \in FVariants}
    \cup {[desk |-> DeskS(sv), opts |-> o] : sv \in SVariants, o \in ScanOptions(NULL_HWND)}
    \cup {[desk |-> DeskSF(sv, [FBaseline EXCEPT !.above = above]), opts |-> o] :
            sv \in SVariants, above \in BOOLEAN, o \in ScanOptions(NULL_HWND)}
    \cup {[desk |-> DeskSC(cv, with_f, [FBaseline EXCEPT !.above = FALSE]), opts |-> o] :
            cv \in CVariants, with_f \in BOOLEAN, o \in ScanOptions(NULL_HWND)}

ScanInit ==
    /\ \E input \in ScanInputs :
          /\ desk = input.desk
          /\ opts = input.opts
    /\ now = ClockModulus \div 2
    /\ budget = ScanBudget
    /\ Constructed

ScanNext ==
    \/ \E id \in SourceIds : SelectSource(id)
    \/ CaptureFrame
    \/ \E result \in Results : ScreenResult(result)
    \/ \E outcome \in MagOutcomes : MagResult(outcome)

ScanSpec == ScanInit /\ [][ScanNext]_vars

-----------------------------------------------------------------------------
(* A third specification: the WindowsTopOfMeWorker on its own, as CaptureFrame  *)
(* creates it (constructed and bound to S), with its public methods called in   *)
(* any order while its thread scans, the clock advances and the desktop changes *)

\* the windows IsChanged is asked about
QueryWindows == {1, kLastMsThreshold}

WorkerInit ==
    /\ desk \in Desktops
    /\ opts \in {Options(win8, TRUE, TRUE, NULL_HWND, FALSE) : win8 \in BOOLEAN}
    /\ now \in StartTimes
    /\ budget = -1
    /\ pc = "idle"
    /\ selected_window = "S"
    /\ capturer = "Unknown"
    /\ should_use_screen_capturer_cache = "Empty"
    /\ window_region_rect = DesktopRect0
    /\ mag = NewMagnifier
    /\ \E is_using_magnifier \in BOOLEAN :
          worker = SelectWindow(desk, opts, NewWorker, "S", is_using_magnifier, now)
    /\ wc = NewWindowCapturer
    /\ last = LastRecord("none", "Unknown", FALSE)
    /\ advances = 0

\* windows_top_of_me_worker_->SelectWindow(window, is_using_magnifier)
WorkerSelectWindow(window, is_using_magnifier) ==
    /\ worker' = SelectWindow(desk, opts, worker, window, is_using_magnifier, now)
    /\ last' = [last EXCEPT !.op = "bind", !.query = NoQuery]
    /\ UNCHANGED <<desk, opts, now, pc, selected_window, capturer,
                   should_use_screen_capturer_cache, window_region_rect, mag,
                   wc, budget, advances>>

\* windows_top_of_me_worker_->IsChanged(in_last_ms)
WorkerIsChanged(in_last_ms) ==
    /\ \E start_ok \in StartChoices(Self) :
          LET r == IsChanged(worker, now, in_last_ms, start_ok)
          IN  /\ worker' = r.worker
              /\ last' = [last EXCEPT
                            !.op = "query",
                            !.query = [asked |-> TRUE, time |-> now,
                                       last_changed |-> worker.last_changed,
                                       ignore_counter |-> worker.ignore_counter,
                                       in_last_ms |-> in_last_ms, ret |-> r.ret,
                                       nth |-> Min2(last.query.nth + 1,
                                                    kIgnoreCounter + 1)]]
    /\ UNCHANGED <<desk, opts, now, pc, selected_window, capturer,
                   should_use_screen_capturer_cache, window_region_rect, mag,
                   wc, budget, advances>>

WorkerNext ==
    \/ \E window \in SourceIds, is_using_magnifier \in BOOLEAN :
          WorkerSelectWindow(window, is_using_magnifier)
    \/ \E in_last_ms \in QueryWindows : WorkerIsChanged(in_last_ms)
    \/ WorkerTick
    \/ \E dt \in TimeSteps : Advance(dt)
    \/ DesktopChange

WorkerSpec == WorkerInit /\ [][WorkerNext]_vars

-----------------------------------------------------------------------------
(* A fourth specification: the WindowsTopOfMeWorker with each pass of Run taken *)
(* in two steps (the write of core_windows_, then the comparison and the store  *)
(* of the list), on the worker thread and on the caller thread (Run(NULL) from  *)
(* SelectWindow), together with the accessors the capturer reads the worker     *)
(* through and the destruction of the capturer that owns it.  The class has no  *)
(* lock, event or atomic: nothing orders the accesses of the two threads.       *)

\* a third application's window covering part of S
ThirdWin ==
    [ForeignWin EXCEPT !.title = "third", !.pid = 3, !.tid = 4,
                       !.winrect = MakeRect(3, 3, 5, 4), !.content = MakeRect(3, 3, 5, 4)]

\* a desktop with S below two foreign windows, topmost first in |above|
DeskSFG(above) ==
    [z |-> above \o <<"S">>,
     win |-> [h \in {"S", "F", "G"} |->
                 CASE h = "S" -> SelectedWin
                   [] h = "F" -> ForeignWin
                   [] OTHER -> ThirdWin]]

\* a non-cloaked core window below S that overlaps it
CoreBelow == [FBaseline EXCEPT !.cls = "Windows.UI.Core.CoreWindow", !.above = FALSE]

\* a desktop and whether some GUI thread is in a move/size loop (GUI_INMOVESIZE)
WithMoving(base, moving) == [z |-> base.z, win |-> base.win, moving |-> moving]

\* the desktops the worker scans: S alone, a foreign window above S (at rest and
\* while the user drags it), two foreign windows above S in either order, and a
\* core window below S
ThreadDesks ==
    {WithMoving(DeskS("normal"), FALSE),
     WithMoving(DeskSF("normal", FBaseline), FALSE),
     WithMoving(DeskSF("normal", FBaseline), TRUE),
     WithMoving(DeskSFG(<<"F", "G">>), FALSE),
     WithMoving(DeskSFG(<<"G", "F">>), FALSE),
     WithMoving(DeskSF("normal", CoreBelow), FALSE)}

\* bookkeeping of the accessors: the list the last core_windows() call returned, and the
\* pass steps the worker thread has taken since core_windows() was entered
\* ("n/a", "none", "begun", "completed")
ThreadLast ==
    [read |-> <<>>, passes |-> "n/a"] @@ LastRecord("none", "Unknown", FALSE)

\* what a pass that writes destroyed members, or stores while another pass is in
\* flight, can do
RaceOutcomes == {"proceeds", "crashes"}
Outcomes(racing) == IF racing THEN RaceOutcomes ELSE {"proceeds"}

\* the first half of a pass: core_windows_ = windows (lines 644-663)
BeginPass(d, o, wk) ==
    [wk EXCEPT !.core_windows = IF o.win8 THEN FindCoreWindows(d) ELSE @]

\* the second half of a pass: the enumeration, the comparison and the store
\* (lines 665-712)
StorePass(d, o, wk, time) == ScanFrom(d, o, wk, time, wk.core_windows)

\* the worker thread's progress as seen by a core_windows() call in progress
PassesAfter(step) ==
    IF pc = "core_windows" /\ step = "begin" /\ last.passes = "none" THEN "begun"
    ELSE IF pc = "core_windows" /\ step = "store" /\ last.passes = "begun" THEN "completed"
    ELSE last.passes

\* the clock when the worker is created, and the step it advances by between
\* the steps of the two threads
ThreadStartTime == ClockModulus \div 2
ThreadTimeSteps == {kLastMsThreshold \div 2}

ThreadInit ==
    /\ desk \in ThreadDesks
    /\ opts \in {Options(win8, TRUE, TRUE, NULL_HWND, FALSE) : win8 \in BOOLEAN}
    /\ now = ThreadStartTime
    /\ budget = -1
    /\ pc = "idle"
    /\ selected_window = "S"
    /\ capturer = "Unknown"
    /\ should_use_screen_capturer_cache = "Empty"
    /\ window_region_rect = DesktopRect0
    /\ mag = NewMagnifier
    /\ worker = SelectWindow(desk, opts, NewWorker, "S", FALSE, now)
    /\ wc = NewWindowCapturer
    /\ last = ThreadLast
    /\ advances = 0

\* the worker thread enters the loop body of Run(thread) and writes core_windows_
ThreadBeginPass ==
    /\ pc # "crashed"
    /\ worker.thread = "running"
    /\ \E outcome \in Outcomes(pc = "joining" /\ opts.win8) :
          IF outcome = "crashes"
          THEN pc' = "crashed" /\ UNCHANGED <<worker, last>>
          ELSE /\ worker' = [BeginPass(desk, opts, worker) EXCEPT !.thread = "scanning"]
               /\ last' = [last EXCEPT !.passes = PassesAfter("begin")]
               /\ pc' = pc
    /\ UNCHANGED <<desk, opts, now, selected_window, capturer,
                   should_use_screen_capturer_cache, window_region_rect, mag,
                   wc, budget, advances>>

\* the worker thread enumerates, compares and stores, then goes to Sleep
ThreadStorePass ==
    /\ pc # "crashed"
    /\ worker.thread = "scanning"
    /\ \E outcome \in Outcomes(pc \in {"joining", "run_null"}) :
          IF outcome = "crashes"
          THEN pc' = "crashed" /\ UNCHANGED <<worker, last>>
          ELSE /\ worker' = [StorePass(desk, opts, worker, now) EXCEPT !.thread = "sleeping"]
               /\ last' = [last EXCEPT !.passes = PassesAfter("store")]
               /\ pc' = pc
    /\ UNCHANGED <<desk, opts, now, selected_window, capturer,
                   should_use_screen_capturer_cache, window_region_rect, mag,
                   wc, budget, advances>>

\* Sleep(1000 / kFps) returns and the loop condition !thread->IsQuitting() is read
ThreadWake ==
    /\ pc # "crashed"
    /\ worker.thread = "sleeping"
    /\ worker' = [worker EXCEPT !.thread = IF pc = "joining" THEN "exited" ELSE "running"]
    /\ UNCHANGED <<desk, opts, now, pc, selected_window, capturer,
                   should_use_screen_capturer_cache, window_region_rect, mag,
                   wc, last, budget, advances>>

\* IsChanged(kLastMsThreshold) on the caller thread; it starts the worker thread
ThreadIsChanged ==
    /\ pc = "idle"
    /\ \E start_ok \in StartChoices(Self) :
          worker' = IsChanged(worker, now, kLastMsThreshold, start_ok).worker
    /\ last' = [last EXCEPT !.op = "query", !.passes = "n/a"]
    /\ UNCHANGED <<desk, opts, now, pc, selected_window, capturer,
                   should_use_screen_capturer_cache, window_region_rect, mag,
                   wc, budget, advances>>

\* SelectWindow(window, false) on the caller thread
ThreadSelectWindow(window) ==
    /\ pc = "idle"
    /\ worker' = SelectWindow(desk, opts, worker, window, FALSE, now)
    /\ last' = [last EXCEPT !.op = "bind", !.passes = "n/a"]
    /\ UNCHANGED <<desk, opts, now, pc, selected_window, capturer,
                   should_use_screen_capturer_cache, window_region_rect, mag,
                   wc, budget, advances>>

\* SelectWindow(window, true) on the caller thread, up to the write of
\* core_windows_ in Run(NULL)
CallerBeginPass(window) ==
    /\ pc = "idle"
    /\ worker' = BeginPass(desk, opts, [worker EXCEPT !.selected_window = window])
    /\ last' = [last EXCEPT !.op = "bind", !.passes = "n/a"]
    /\ pc' = "run_null"
    /\ UNCHANGED <<desk, opts, now, selected_window, capturer,
                   should_use_screen_capturer_cache, window_region_rect, mag,
                   wc, budget, advances>>

\* the rest of SelectWindow(window, true): Run(NULL) stores, the counter is reset
CallerStorePass ==
    /\ pc = "run_null"
    /\ \E outcome \in Outcomes(worker.thread = "scanning") :
          IF outcome = "crashes"
          THEN pc' = "crashed" /\ UNCHANGED worker
          ELSE /\ worker' = [StorePass(desk, opts, worker, now) EXCEPT
                                !.ignore_counter = kIgnoreCounter]
               /\ pc' = "idle"
    /\ UNCHANGED <<desk, opts, now, selected_window, capturer,
                   should_use_screen_capturer_cache, window_region_rect, mag,
                   wc, last, budget, advances>>

\* ShouldUseScreenCapturer enters core_windows()
RequestCoreWindows ==
    /\ pc = "idle"
    /\ pc' = "core_windows"
    /\ last' = [last EXCEPT !.op = "core_windows", !.read = <<>>, !.passes = "none"]
    /\ UNCHANGED <<desk, opts, now, selected_window, capturer,
                   should_use_screen_capturer_cache, window_region_rect, mag, worker,
                   wc, budget, advances>>

\* core_windows() returns its copy of core_windows_
ReturnCoreWindows ==
    /\ pc = "core_windows"
    /\ pc' = "idle"
    /\ last' = [last EXCEPT !.read = worker.core_windows]
    /\ UNCHANGED <<desk, opts, now, selected_window, capturer,
                   should_use_screen_capturer_cache, window_region_rect, mag, worker,
                   wc, budget, advances>>

\* CaptureFrameUsingMagnifierApi reads exclusion_window_list()
ReadExclusionList ==
    /\ pc = "idle"
    /\ last' = [last EXCEPT !.op = "exclusion_window_list", !.passes = "n/a"]
    /\ UNCHANGED <<desk, opts, now, pc, selected_window, capturer,
                   should_use_screen_capturer_cache, window_region_rect, mag, worker,
                   wc, budget, advances>>

\* the capturer is destroyed: the worker's members are destroyed in reverse order
\* of declaration, the two vectors first and thread_ after them; the destructor of
\* rtc::Thread tells the thread to quit and waits for it
DestroyBegin ==
    /\ pc = "idle"
    /\ pc' = "joining"
    /\ last' = [last EXCEPT !.op = "destroy", !.passes = "n/a"]
    /\ UNCHANGED <<desk, opts, now, selected_window, capturer,
                   should_use_screen_capturer_cache, window_region_rect, mag, worker,
                   wc, budget, advances>>

\* the join returns: there is no thread, or Run has returned
Joined ==
    /\ pc = "joining"
    /\ worker.thread \in {"none", "failed", "exited"}
    /\ pc' = "destroyed"
    /\ worker' = [worker EXCEPT !.exists = FALSE]
    /\ UNCHANGED <<desk, opts, now, selected_window, capturer,
                   should_use_screen_capturer_cache, window_region_rect, mag,
                   wc, last, budget, advances>>

\* windows are opened, closed, restacked or dragged
ThreadDesktopChange ==
    /\ pc \notin {"crashed", "destroyed"}
    /\ desk' \in ThreadDesks \ {desk}
    /\ UNCHANGED <<opts, now, pc, selected_window, capturer,
                   should_use_screen_capturer_cache, window_region_rect, mag, worker,
                   wc, last, budget, advances>>

ThreadNext ==
    \/ ThreadBeginPass
    \/ ThreadStorePass
    \/ ThreadWake
    \/ ThreadIsChanged
    \/ \E window \in SourceIds : ThreadSelectWindow(window)
    \/ \E window \in SourceIds : CallerBeginPass(window)
    \/ CallerStorePass
    \/ RequestCoreWindows
    \/ ReturnCoreWindows
    \/ ReadExclusionList
    \/ DestroyBegin
    \/ Joined
    \/ \E dt \in ThreadTimeSteps : Advance(dt)
    \/ ThreadDesktopChange

ThreadSpec == ThreadInit /\ [][ThreadNext]_vars

\* the same machine with the scheduling the operating system gives: a runnable
\* worker thread takes its next step, Sleep returns, and a join whose thread has
\* exited returns
FairThreadSpec ==
    /\ ThreadSpec
    /\ WF_vars(ThreadBeginPass)
    /\ WF_vars(ThreadStorePass)
    /\ WF_vars(ThreadWake)
    /\ WF_vars(Joined)

-----------------------------------------------------------------------------
(* A fifth specification: the passes of WindowsTopOfMeWorker::Run, each taken   *)
(* in one step, over desktops that exercise every branch of a pass: windows     *)
(* above and below S, core windows and the taskbar, windows whose content rect  *)
(* cannot be read, dialogs owned by S.                                          *)

\* the taskbar, below S and overlapping it
TrayBelow == [FBaseline EXCEPT !.cls = "Shell_TrayWnd", !.above = FALSE]

\* a foreign window above S and a core window below it, both overlapping S
DeskFSCore ==
    [z |-> <<"F", "S", "G">>,
     win |-> [h \in {"S", "F", "G"} |->
                 CASE h = "S" -> SelectedWin
                   [] h = "F" -> ForeignWin
                   [] OTHER -> [ThirdWin EXCEPT !.cls = "Windows.UI.Core.CoreWindow"]]]

TickDesks ==
    {DeskS("normal"),
     DeskSF("normal", FBaseline),
     DeskSF("normal", [FBaseline EXCEPT !.above = FALSE]),
     DeskSF("normal", [FBaseline EXCEPT !.geom = "unreadable"]),
     DeskSF("normal", [FBaseline EXCEPT !.geom = "touch"]),
     DeskSF("normal", [FBaseline EXCEPT !.cls = "Windows.UI.Core.CoreWindow"]),
     DeskSF("normal", CoreBelow),
     DeskSF("normal", [CoreBelow EXCEPT !.kind = "hidden"]),
     DeskSF("normal", [CoreBelow EXCEPT !.geom = "touch"]),
     DeskSF("normal", TrayBelow),
     DeskSF("normal", [TrayBelow EXCEPT !.above = TRUE]),
     DeskSF("normal", DialogVariant),
     DeskSF("no_content", FBaseline),
     DeskSFG(<<"F", "G">>),
     DeskSFG(<<"G", "F">>),
     DeskFSCore}

TickInit ==
    /\ desk \in TickDesks
    /\ opts \in {Options(win8, TRUE, TRUE, NULL_HWND, FALSE) : win8 \in BOOLEAN}
    /\ now = ThreadStartTime
    /\ budget = -1
    /\ pc = "idle"
    /\ selected_window = "S"
    /\ capturer = "Unknown"
    /\ should_use_screen_capturer_cache = "Empty"
    /\ window_region_rect = DesktopRect0
    /\ mag = NewMagnifier
    /\ worker = SelectWindow(desk, opts, NewWorker, "S", FALSE, now)
    /\ wc = NewWindowCapturer
    /\ last = LastRecord("none", "Unknown", FALSE)
    /\ advances = 0

\* one pass of the loop of Run(thread), from the FindWindowEx loop to the store
TickScan ==
    /\ worker.thread = "running"
    /\ worker' = RunScan(desk, opts, worker, now)
    /\ last' = [last EXCEPT !.op = "tick"]
    /\ UNCHANGED <<desk, opts, now, pc, selected_window, capturer,
                   should_use_screen_capturer_cache, window_region_rect, mag,
                   wc, budget, advances>>

\* windows are opened, closed, hidden or restacked between two passes
TickDesktopChange ==
    /\ desk' \in TickDesks \ {desk}
    /\ last' = [last EXCEPT !.op = "desktop"]
    /\ UNCHANGED <<opts, now, pc, selected_window, capturer,
                   should_use_screen_capturer_cache, window_region_rect, mag, worker,
                   wc, budget, advances>>

TickNext ==
    \/ TickScan
    \/ \E window \in SourceIds, is_using_magnifier \in BOOLEAN :
          WorkerSelectWindow(window, is_using_magnifier)
    \/ WorkerIsChanged(kLastMsThreshold)
    \/ \E dt \in ThreadTimeSteps : Advance(dt)
    \/ TickDesktopChange

TickSpec == TickInit /\ [][TickNext]_vars

-----------------------------------------------------------------------------
(* A sixth specification: a SelectedWindowContext constructed for a window      *)
(* handle and a rectangle on a desktop that stays as it is, and asked its       *)
(* predicates about any handle.  The thread and process ids the constructor     *)
(* reads are those of the desktop.                                              *)

\* a pop-up window of S's GUI thread: no title, no caption, no owner
PopupWin ==
    [ForeignWin EXCEPT !.title = "", !.pid = 1, !.tid = 1, !.caption = FALSE]

\* the windows next to S: another application's, a dialog owned by S, a pop-up of
\* S's thread, another application's window beside S
ContextWindows(sv) ==
    {FWin(FBaseline), PopupWin, FWin([FBaseline EXCEPT !.geom = "touch"])}
    \cup (IF sv = "closed" THEN {} ELSE {FWin(DialogVariant)})

\* S (open, of a UWP frame class, or closed), its child window C while it is
\* open, and a second top-level window F above it
ContextDesk(sv, f) ==
    [z |-> IF sv = "closed" THEN <<"F">> ELSE <<"F", "S">>,
     win |-> [h \in (IF sv = "closed" THEN {"S", "F"} ELSE {"S", "F", "C"}) |->
                 CASE h = "S" -> SWin(sv)
                   [] h = "F" -> f
                   [] OTHER -> ChildWin]]

ContextDesks ==
    UNION {{ContextDesk(sv, f) : f \in ContextWindows(sv)} :
             sv \in {"normal", "uwp", "closed"}}

\* the handles a context is constructed for and asked about
ContextHandles == {"S", "F", "C", NULL_HWND}

\* the rectangles a context is constructed with
ContextRects == {DesktopRect0, MakeRect(2, 2, 6, 6)}

\* the answers of the predicates to the last handle asked about
ContextLast(hwnd, valid, sel, owned, uwp, overlapping) ==
    [op |-> IF hwnd = "none" THEN "none" ELSE "predicates", hwnd |-> hwnd,
     valid |-> valid, selected |-> sel, owned |-> owned, uwp |-> uwp,
     overlapping |-> overlapping]

ContextInit ==
    /\ desk \in ContextDesks
    /\ opts = Options(TRUE, TRUE, TRUE, NULL_HWND, FALSE)
    /\ now = ClockModulus \div 2
    /\ budget = -1
    /\ pc = "idle"
    /\ selected_window \in ContextHandles
    /\ capturer = "Unknown"
    /\ should_use_screen_capturer_cache = "Empty"
    /\ window_region_rect \in ContextRects
    /\ mag = NewMagnifier
    /\ worker = NoWorker
    /\ wc = NewWindowCapturer
    /\ last = ContextLast("none", FALSE, FALSE, FALSE, FALSE, FALSE)
    /\ advances = 0

\* SelectedWindowContext(selected_window, selected_window_rect, helper)
ContextConstruct(window, rect) ==
    /\ selected_window' = window
    /\ window_region_rect' = rect
    /\ last' = ContextLast("none", FALSE, FALSE, FALSE, FALSE, FALSE)
    /\ UNCHANGED <<desk, opts, now, pc, capturer, should_use_screen_capturer_cache,
                   mag, worker, wc, budget, advances>>

\* the answers of the context sc about hwnd
ContextAnswers(d, sc, hwnd) ==
    ContextLast(hwnd, IsSelectedWindowValid(sc), IsWindowSelected(sc, hwnd),
                IsWindowOwned(d, sc, hwnd), IsUWPAncestor(d, sc, hwnd),
                IsWindowOverlapping(d, sc, hwnd))

\* the caller asks every predicate of the context about hwnd
ContextQuery(hwnd) ==
    /\ last' = ContextAnswers(desk,
                   SelectedWindowContext(desk, selected_window, window_region_rect), hwnd)
    /\ UNCHANGED <<desk, opts, now, pc, selected_window, capturer,
                   should_use_screen_capturer_cache, window_region_rect, mag, worker,
                   wc, budget, advances>>

ContextNext ==
    \/ \E window \in ContextHandles, rect \in ContextRects : ContextConstruct(window, rect)
    \/ \E hwnd \in ContextHandles : ContextQuery(hwnd)

ContextSpec == ContextInit /\ [][ContextNext]_vars

-----------------------------------------------------------------------------
(* A seventh specification: the capturer in steady use.  The consumer has       *)
(* selected S and captured long enough for the worker to exist with its thread  *)
(* running and its ignore counter used up, and the worker has made a pass over  *)
(* the desktop.  From then on the desktop stays as it is, so that every pass    *)
(* finds the same list and every decision has the same inputs, while the        *)
(* consumer goes on capturing and the clock goes on, around its whole range.    *)

\* the desktops: S alone, another application's window above or below it, S of a
\* class that is captured through the magnifier
SteadyDesks ==
    {DeskS("normal"), DeskSF("normal", FBaseline),
     DeskSF("normal", [FBaseline EXCEPT !.above = FALSE]),
     DeskSF("screenClass", FBaseline)}

\* the clock advances by a sixteenth of its range
SteadyTimeStep == ClockModulus \div 16

\* the exclusion list before the worker's last pass: empty, or a window that
\* covered S on the desktop as it was
SteadyLists == {<<>>, <<"F">>}

\* the worker after SelectWindow, kIgnoreCounter + 1 IsChanged calls and passes,
\* the last of them at clock value time over a list that was before
SteadyWorker(d, o, is_using_magnifier, before, time) ==
    [RunScan(d, o,
             [SelectWindow(d, o, NewWorker, "S", is_using_magnifier, time)
              EXCEPT !.exclusion_window_list = before],
             time)
     EXCEPT !.thread = "running", !.ignore_counter = 0]

SteadyInit ==
    /\ desk \in SteadyDesks
    /\ opts \in OptionSets
    /\ now = ClockModulus \div 2
    /\ budget = -1
    /\ pc = "idle"
    /\ selected_window = "S"
    /\ capturer \in {"Unknown", "Window", "Screen"}
    /\ should_use_screen_capturer_cache = "Empty"
    /\ window_region_rect = GetWindowRect(desk, "S").rect
    /\ mag = [NewMagnifier EXCEPT !.selected_window_should_use_magnifier =
                                      SelectedWindowShouldUseMagnifier(desk, opts, "S")]
    /\ \E before \in SteadyLists :
          worker = IF opts.allow_magnification
                   THEN SteadyWorker(desk, opts, mag.selected_window_should_use_magnifier,
                                     before, now)
                   ELSE NoWorker
    /\ wc = [NewWindowCapturer EXCEPT !.window = "S"]
    /\ last = LastRecord("none", capturer, FALSE)
    /\ advances = 0

\* rtc::Time32() goes on and wraps
SteadyClock ==
    /\ pc # "crashed"
    /\ now' = (now + SteadyTimeStep) % ClockModulus
    /\ UNCHANGED <<desk, opts, pc, selected_window, capturer,
                   should_use_screen_capturer_cache, window_region_rect, mag, worker,
                   wc, last, budget, advances>>

SteadyNext ==
    \/ CaptureFrame
    \/ \E result \in Results : ScreenResult(result)
    \/ \E outcome \in MagOutcomes : MagResult(outcome)
    \/ WorkerTick
    \/ SteadyClock

SteadySpec == SteadyInit /\ [][SteadyNext]_vars

\* the same machine with what the platform guarantees: the clock goes on, and a
\* running worker thread makes its next pass; whether the consumer goes on asking
\* for frames is up to the consumer
FairSteadySpec ==
    /\ SteadySpec
    /\ WF_vars(SteadyClock)
    /\ WF_vars(WorkerTick)

-----------------------------------------------------------------------------
(* An eighth specification: the WindowCapturerWin on its own, on a desktop with *)
(* two application windows that stays as it is.  The consumer selects either    *)
(* window and captures in any order; the window capturer moves from GDI to the  *)
(* graphics capturer after kGdiFrames frames when that capturer is allowed.     *)

GrabDesks ==
    {DeskSF("normal", FBaseline), DeskSF("normal", [FBaseline EXCEPT !.above = FALSE]),
     DeskSF("hidden", FBaseline)}

GrabOptions ==
    {Options(TRUE, TRUE, FALSE, NULL_HWND, TRUE), Options(TRUE, TRUE, FALSE, NULL_HWND, FALSE)}

GrabHandles == {"S", "F"}

GrabInit ==
    /\ desk \in GrabDesks
    /\ opts \in GrabOptions
    /\ now = ClockModulus \div 2
    /\ budget = -1
    /\ pc = "idle"
    /\ selected_window = NULL_HWND
    /\ capturer = "Unknown"
    /\ should_use_screen_capturer_cache = "Empty"
    /\ window_region_rect = DesktopRect0
    /\ mag = NewMagnifier
    /\ worker = NoWorker
    /\ wc = NewWindowCapturer
    /\ last = LastRecord("none", "Unknown", FALSE)
    /\ advances = 0

\* the consumer calls WindowCapturerWin::SelectSource(id)
GrabSelectSource(id) ==
    /\ pc = "idle"
    /\ wc' = WindowCapturerSelectSource(desk, wc, id).wc
    /\ last' = [LastRecord("select", "Unknown", FALSE)
                  EXCEPT !.select_ret = WindowCapturerSelectSource(desk, wc, id).ret]
    /\ UNCHANGED <<desk, opts, now, pc, selected_window, capturer,
                   should_use_screen_capturer_cache, window_region_rect, mag, worker,
                   budget, advances>>

\* the consumer calls WindowCapturerWin::CaptureFrame()
GrabCaptureFrame ==
    /\ pc = "idle"
    /\ \E in \in InputChoices(Self) :
          /\ wc' = WindowCapturerCaptureFrame(desk, opts, wc, in).wc
          /\ pc' = IF WindowCapturerCaptureFrame(desk, opts, wc, in).crashed
                   THEN "crashed" ELSE "idle"
          /\ last' = [LastRecord("capture", "Unknown", FALSE)
                        EXCEPT !.delivered =
                                  WindowCapturerCaptureFrame(desk, opts, wc, in).callbacks]
    /\ UNCHANGED <<desk, opts, now, selected_window, capturer,
                   should_use_screen_capturer_cache, window_region_rect, mag, worker,
                   budget, advances>>

GrabNext ==
    \/ \E id \in GrabHandles : GrabSelectSource(id)
    \/ GrabCaptureFrame

GrabSpec == GrabInit /\ [][GrabNext]_vars

-----------------------------------------------------------------------------
(* Properties *)

TemporaryNoFrame == Callback("ERROR_TEMPORARY", "none", NULL_HWND)

\* a CaptureFrame call has returned to the consumer
CaptureReturned == pc = "idle" /\ last.op = "capture"

\* C1: when the IsChanged(500) check made inside CaptureFrame or inside
\* OnCaptureResult returns true, the consumer receives exactly one result for that
\* call, ERROR_TEMPORARY without a frame; a change seen in CaptureFrame also
\* means that no backend was asked for a frame.
C1_ChangedYieldsTemporary ==
    /\ (CaptureReturned /\ last.cf_changed = "true")
          => last.delivered = <<TemporaryNoFrame>> /\ last.backends = <<>>
    /\ (CaptureReturned /\ last.ocr_changed = "true")
          => last.delivered = <<TemporaryNoFrame>>

\* C1 witness: the screen capturer was asked for a frame, the change was seen
\* in OnCaptureResult and the frame was dropped
C1_Witness ==
    /\ CaptureReturned
    /\ last.ocr_changed = "true"
    /\ last.backends = <<"Screen">>
    /\ last.delivered = <<TemporaryNoFrame>>

\* hwnd is stacked above the selected window
IsAbove(d, hwnd, selected) ==
    \E i, j \in 1..Len(d.z) : i < j /\ d.z[i] = hwnd /\ d.z[j] = selected

\* a foreign window in the sense of the specification: visible on the current
\* desktop, not owned by the selected window, not a notification, not the excluded
\* window, above the selected window, with a readable content rect
IsForeignAbove(d, o, selected, hwnd) ==
    /\ WinOf(d, hwnd).exists /\ WinOf(d, hwnd).shown /\ ~WinOf(d, hwnd).cloaked
    /\ ~IsWindowOwned(d, SelectedWindowContext(d, selected, DesktopRect0), hwnd)
    /\ ~WinOf(d, hwnd).notif
    /\ hwnd # o.excluded_window
    /\ IsAbove(d, hwnd, selected)
    /\ WinOf(d, hwnd).content_ok

\* the CaptureFrame call in progress or last finished made a decision on the
\* desktop as it is now
Decided == last.op = "capture" /\ last.use_screen # "n/a"

\* the occlusion scan of the decision did not report top-most
ScanNotTop ==
    last.decision.scanned =>
        /\ last.decision.root_visits # <<>>
        /\ ~last.decision.root_visits[Len(last.decision.root_visits)].is_top_window

IsCountedByScan(d, o, selected, hwnd) ==
    /\ \/ WinOf(d, hwnd).pid # WinOf(d, selected).pid
       \/ WinOf(d, hwnd).title \notin {"", WinOf(d, selected).title}
    /\ ~(/\ o.allow_magnification /\ o.win8
         /\ WinOf(d, hwnd).cls = "Windows.UI.Core.CoreWindow")

C3_WindowToScreenHysteresis ==
    /\ (last.op = "capture" /\ last.prev_capturer = "Window" /\ last.use_screen = "true")
          => /\ pc = "idle"
             /\ last.slept = kFullScreenTransitionTime
             /\ capturer = "Screen"
             /\ last.backends = <<>>
             /\ last.delivered = <<TemporaryNoFrame>>
    /\ (last.op = "capture" /\ last.after_hysteresis /\ last.use_screen = "true")
          => /\ pc \in {"screen", "idle"}
             /\ last.prev_capturer = "Screen"
             /\ last.slept = 0
             /\ capturer = "Screen"
             /\ last.backends = <<"Screen">>
             /\ pc = "idle" => Len(last.delivered) = 1

\* C3 witness: the frame after a hysteresis drop was captured by the screen
\* capturer and delivered
C3_Witness ==
    /\ CaptureReturned
    /\ last.after_hysteresis
    /\ last.use_screen = "true"
    /\ last.backends = <<"Screen">>
    /\ last.delivered = <<Callback("SUCCESS", "screen", "S")>>

\* C3 witness of the dropped frame itself, with the worker reporting no change
C3_DropWitness ==
    /\ CaptureReturned
    /\ last.prev_capturer = "Window"
    /\ last.use_screen = "true"
    /\ last.slept = kFullScreenTransitionTime
    /\ last.delivered = <<TemporaryNoFrame>>

\* the statement of C4 as the specification has it: IsChanged(in_last_ms)
\* returns true iff the time since last_changed_ is below in_last_ms
C4_Original ==
    last.query.asked =>
        (last.query.ret <=>
            (last.query.time - last.query.last_changed) % ClockModulus
                < last.query.in_last_ms)

\* C4 (amended): IsChanged(in_last_ms) returns false while the ignore counter is
\* positive (the first kIgnoreCounter calls after the worker is bound to a window);
\* otherwise it returns true iff the time since last_changed_, in the clock's
\* unsigned arithmetic, is below in_last_ms: for a change stamped at t it is true
\* at t .. t+499 and false at t+500.
C4_IsChangedAfterIgnoredCalls ==
    last.query.asked =>
        (last.query.ret <=>
            /\ last.query.ignore_counter = 0
            /\ (last.query.time - last.query.last_changed) % ClockModulus
                  < last.query.in_last_ms)

\* C4 witness: a change stamped by the worker's scan, queried exactly 500 ms later
C4_Witness ==
    /\ last.query.asked
    /\ last.query.ignore_counter = 0
    /\ last.query.in_last_ms = kLastMsThreshold
    /\ last.query.last_changed # 0
    /\ worker.exclusion_window_list # <<>>
    /\ (last.query.time - last.query.last_changed) % ClockModulus = kLastMsThreshold
    /\ ~last.query.ret

\* C4 witness of the last millisecond of the window
C4_InsideWitness ==
    /\ last.query.asked
    /\ last.query.ignore_counter = 0
    /\ last.query.in_last_ms = kLastMsThreshold
    /\ last.query.last_changed # 0
    /\ (last.query.time - last.query.last_changed) % ClockModulus = kLastMsThreshold - 1
    /\ last.query.ret

\* C5: should_use_screen_capturer_cache_ is Empty whenever CaptureFrame has
\* returned to the consumer and whenever OnCaptureResult has returned to the backend
\* that called it, and the RTC_DCHECK(cache == Empty) before the decision in
\* CaptureFrame has never failed.
C5_CacheEmptyOnReturn ==
    /\ pc = "idle" => should_use_screen_capturer_cache = "Empty"
    /\ last.ocr_exit \in {"n/a", "Empty"}
    /\ last.dcheck_ok

\* C5 witness: a frame of the screen capturer went through OnCaptureResult to the
\* consumer, and both methods left the cache Empty
C5_Witness ==
    /\ CaptureReturned
    /\ last.use_screen = "true"
    /\ last.backends = <<"Screen">>
    /\ last.ocr_changed = "false"
    /\ last.ocr_exit = "Empty"
    /\ Len(last.delivered) = 1 /\ last.delivered[1].result = "SUCCESS"
    /\ should_use_screen_capturer_cache = "Empty"

\* C6: every CaptureFrame call of the window capturer (which hands the frame to
\* the graphics capturer once that is in use) that runs to its end makes exactly
\* one OnCaptureResult call.
C6_ExactlyOneCallback ==
    pc # "crashed" =>
        \A i \in 1..Len(last.wc_callbacks) : last.wc_callbacks[i] = 1

\* C6: the state that refutes it: PrintWindow and BitBlt both failed and the
\* consumer got ERROR_TEMPORARY followed by SUCCESS from one CaptureFrame call
C6_DoubleCallback ==
    /\ CaptureReturned
    /\ last.backends = <<"Window">>
    /\ last.wc_callbacks = <<2>>
    /\ last.delivered = <<TemporaryNoFrame, Callback("SUCCESS", "gdi", "S")>>

IsOwnedByRootOwner(d, selected, hwnd) ==
    /\ WinOf(d, hwnd).exists
    /\ hwnd # selected
    /\ GetAncestorRootOwner(d, hwnd) = selected

\* C8: every window whose root owner is the selected window satisfies
\* IsWindowOwned, and a pass of the worker's scan never leaves such a window in
\* the exclusion list.
C8_OwnedNeverExcluded ==
    [][WorkerTick =>
          \A hwnd \in DOMAIN desk.win :
              IsOwnedByRootOwner(desk, worker.selected_window, hwnd)
                 => /\ IsWindowOwned(desk,
                          SelectedWindowContext(desk, worker.selected_window, DesktopRect0),
                          hwnd)
                    /\ ~SeqContains(worker'.exclusion_window_list, hwnd)]_vars

\* C8: the state that refutes it: the dialog box owned by S is in the exclusion list
C8_OwnedExcluded ==
    /\ desk.arr = "dialog_above"
    /\ worker.selected_window = "S"
    /\ worker.thread = "running"
    /\ IsOwnedByRootOwner(desk, "S", "F")
    /\ worker.exclusion_window_list = <<"F">>

\* the selected window passes every test ShouldUseScreenCapturer makes before the
\* occlusion scan, on Windows 8 or later
IsEligibleBeforeScan(d, o, selected) ==
    /\ o.win8
    /\ WinOf(d, selected).exists /\ WinOf(d, selected).shown /\ ~WinOf(d, selected).cloaked
    /\ ~(WinOf(d, selected).layered /\ WinOf(d, selected).lattr \in {"fail", "colorkey", "alpha"})
    /\ WinOf(d, selected).winrect_ok /\ WinOf(d, selected).winrect # DesktopRect0
    /\ WinOf(d, selected).content_ok
    /\ WinOf(d, selected).rgn \in {"ERROR", "SIMPLEREGION"}
    /\ ContainsRect(GetFullscreenRect,
                    ClippedContentRect(d, selected, WinOf(d, selected).winrect))

\* C9: when the only window above S is a window whose root owner is S, the
\* occlusion scan skips it, reports top-most and ShouldUseScreenCapturer returns
\* true, provided S passes the tests made before the scan.
C9_OwnedWindowSkipped ==
    (/\ Decided
     /\ desk.z = <<"F", selected_window>>
     /\ IsOwnedByRootOwner(desk, selected_window, "F")
     /\ WinOf(desk, "F").cls # "Windows.UI.Core.CoreWindow"
     /\ IsEligibleBeforeScan(desk, opts, selected_window))
      => /\ last.decision.scanned
         /\ last.decision.root_visits[Len(last.decision.root_visits)].hwnd = selected_window
         /\ last.use_screen = "true"

\* C9: the state that refutes it: a visible dialog box owned by S, with a title of
\* its own, overlaps S and ends the scan with is_top_window FALSE
C9_OwnedWindowOccludes ==
    /\ Decided
    /\ desk.z = <<"F", "S">>
    /\ selected_window = "S"
    /\ IsOwnedByRootOwner(desk, "S", "F")
    /\ IsEligibleBeforeScan(desk, opts, "S")
    /\ last.decision.root_visits = <<[hwnd |-> "F", is_top_window |-> FALSE]>>
    /\ last.use_screen = "false"

\* C10: when the selected window is layered and GetLayeredWindowAttributes fails,
\* or reports a colour key, or reports an alpha below 255, the decision of
\* CaptureFrame is false, whatever else is on the desktop.
C10_LayeredRefused ==
    (/\ Decided
     /\ WinOf(desk, selected_window).layered
     /\ WinOf(desk, selected_window).lattr \in {"fail", "colorkey", "alpha"})
      => last.use_screen = "false" /\ ~last.decision.scanned

\* C10 witness: a layered window with a colour key, alone on a Windows 8 desktop,
\* is captured by the window capturer
C10_Witness ==
    /\ CaptureReturned /\ Decided
    /\ desk.z = <<"S">> /\ selected_window = "S"
    /\ opts.win8
    /\ WinOf(desk, "S").layered /\ WinOf(desk, "S").lattr = "colorkey"
    /\ WinOf(desk, "S").shown /\ WinOf(desk, "S").content_ok
    /\ last.use_screen = "false"
    /\ last.backends = <<"Window">>

\* the selected window passes the tests ShouldUseScreenCapturer makes before it
\* looks at the window's region (lines 414-459)
PassesTestsBeforeRegion(d, o, selected) ==
    /\ o.win8 \/ ~o.aero
    /\ WinOf(d, selected).exists /\ WinOf(d, selected).shown /\ ~WinOf(d, selected).cloaked
    /\ ~(WinOf(d, selected).layered /\ WinOf(d, selected).lattr \in {"fail", "colorkey", "alpha"})
    /\ WinOf(d, selected).winrect_ok /\ WinOf(d, selected).winrect # DesktopRect0
    /\ WinOf(d, selected).content_ok

\* the content rect of the selected window intersected with its region box moved
\* from window coordinates to screen coordinates
RegionClippedContent(d, selected) ==
    IntersectWith(WinOf(d, selected).content,
                  Translate(WinOf(d, selected).rgnbox,
                            WinOf(d, selected).winrect.l, WinOf(d, selected).winrect.t))

\* C11: a selected window with a complex or null region makes the decision false
\* without a scan.  With a simple region R, the rect tested against the screen and
\* compared with the windows above is content_rect intersected with R translated:
\* outside the screen it makes the decision false without a scan, and inside it a
\* counted foreign window above S makes the decision false exactly when its content
\* rect intersects that rect.
C11_RegionRefusalAndClip ==
    Decided =>
      /\ WinOf(desk, selected_window).rgn \in {"COMPLEXREGION", "NULLREGION"}
            => last.use_screen = "false" /\ ~last.decision.scanned
      /\ (/\ WinOf(desk, selected_window).rgn = "SIMPLEREGION"
          /\ PassesTestsBeforeRegion(desk, opts, selected_window))
            => /\ ~ContainsRect(GetFullscreenRect,
                                RegionClippedContent(desk, selected_window))
                     => last.use_screen = "false" /\ ~last.decision.scanned
               /\ (/\ ContainsRect(GetFullscreenRect,
                                   RegionClippedContent(desk, selected_window))
                   /\ desk.z = <<"F", selected_window>>
                   /\ IsForeignAbove(desk, opts, selected_window, "F")
                   /\ IsCountedByScan(desk, opts, selected_window, "F")
                   /\ WinOf(desk, "F").cls # "Windows.UI.Core.CoreWindow")
                     => /\ last.decision.scanned
                        /\ last.use_screen = "true"
                             <=> is_empty(IntersectWith(
                                     WinOf(desk, "F").content,
                                     RegionClippedContent(desk, selected_window)))

\* C11 witness: a foreign window above S covers part of S's content rect but lies
\* outside S's simple region; the scan reports top-most and the screen capturer
\* delivers the frame
C11_Witness ==
    /\ CaptureReturned /\ Decided
    /\ desk.z = <<"F", "S">> /\ selected_window = "S"
    /\ WinOf(desk, "S").rgn = "SIMPLEREGION"
    /\ IsForeignAbove(desk, opts, "S", "F")
    /\ ~is_empty(IntersectWith(WinOf(desk, "F").content, WinOf(desk, "S").content))
    /\ is_empty(IntersectWith(WinOf(desk, "F").content, RegionClippedContent(desk, "S")))
    /\ last.decision.scanned
    /\ last.use_screen = "true"
    /\ last.backends = <<"Screen">>

\* the selected window is alone on the desktop and passes every test of
\* ShouldUseScreenCapturer that does not concern the OS version or Aero
IsAloneAndCapturable(d, selected) ==
    /\ d.z = <<selected>> /\ DOMAIN d.win = {selected}
    /\ WinOf(d, selected).exists /\ WinOf(d, selected).shown /\ ~WinOf(d, selected).cloaked
    /\ ~WinOf(d, selected).layered
    /\ WinOf(d, selected).winrect_ok /\ WinOf(d, selected).winrect # DesktopRect0
    /\ WinOf(d, selected).content_ok
    /\ WinOf(d, selected).rgn = "ERROR"
    /\ ContainsRect(GetFullscreenRect, WinOf(d, selected).content)

\* C12: on Windows earlier than 8 the decision is true only if Aero is enabled
\* (with Aero disabled it is false), and with Aero enabled the Aero test forces
\* nothing: a window that is alone and passes every other test gets the decision true.
C12_AeroRequiredBeforeWin8 ==
    (Decided /\ ~opts.win8) =>
      /\ ~opts.aero => last.use_screen = "false"
      /\ (opts.aero /\ IsAloneAndCapturable(desk, selected_window))
            => last.use_screen = "true"

\* C12: the state that refutes it: before Windows 8, with Aero disabled, the
\* decision for a window alone on the desktop is true and the screen capturer is asked
C12_AeroDisabledUsesScreen ==
    /\ Decided
    /\ ~opts.win8 /\ ~opts.aero
    /\ IsAloneAndCapturable(desk, selected_window)
    /\ last.decision.scanned
    /\ last.use_screen = "true"
    /\ last.backends = <<"Screen">>

\* the class test of SelectSource, on the window's attributes
IsMagnifierWindow(d, o, hwnd) ==
    \/ o.win8 /\ WinOf(d, hwnd).cls = "ApplicationFrameWindow"
    \/ WinOf(d, hwnd).cls = "screenClass"
    \/ \E c \in DOMAIN d.win :
          WinOf(d, c).parent = hwnd /\ WinOf(d, c).cls = "Intermediate D3D Window"

\* the statement of C13 as the specification has it: after SelectSource(id) with a
\* worker present, capturer_ is Unknown, the worker is bound to id, its exclusion
\* list is empty, last_changed_ is 0 and the ignore counter is kIgnoreCounter
C13_Original ==
    [][\A id \in SourceIds :
          (SelectSource(id) /\ worker.exists)
             => /\ capturer' = "Unknown"
                /\ worker'.selected_window = id
                /\ worker'.exclusion_window_list = <<>>
                /\ worker'.last_changed = 0
                /\ worker'.ignore_counter = kIgnoreCounter]_vars

\* C13 (amended): SelectSource(id) with a worker present sets capturer_ to Unknown,
\* binds the worker to id and sets the ignore counter to kIgnoreCounter.  For a
\* window the magnifier is not used for, it clears the exclusion list and zeroes
\* last_changed_.  For a window the magnifier is used for, it runs one scan on the
\* calling thread instead: the exclusion list becomes that scan's list, and
\* last_changed_ becomes the current time when the list differs from the one before
\* and stays as it was otherwise.
C13_SelectSourceRebindsWorker ==
    [][\A id \in SourceIds :
          (SelectSource(id) /\ worker.exists)
             => /\ capturer' = "Unknown"
                /\ worker'.selected_window = id
                /\ worker'.ignore_counter = kIgnoreCounter
                /\ worker'.thread = worker.thread
                /\ ~IsMagnifierWindow(desk, opts, id)
                      => /\ worker'.exclusion_window_list = <<>>
                         /\ worker'.last_changed = 0
                /\ IsMagnifierWindow(desk, opts, id)
                      => /\ worker'.exclusion_window_list =
                               RunScan(desk, opts, [worker EXCEPT !.selected_window = id],
                                       now).exclusion_window_list
                         /\ worker'.last_changed =
                               IF worker'.exclusion_window_list # worker.exclusion_window_list
                               THEN now ELSE worker.last_changed]_vars

\* C13 witness: SelectSource on a window the magnifier is used for, with a foreign
\* window above it, has left that window in the exclusion list and stamped
\* last_changed_ with the current time
C13_Witness ==
    /\ pc = "idle" /\ last.op = "select"
    /\ worker.exists
    /\ capturer = "Unknown"
    /\ worker.selected_window = "S"
    /\ WinOf(desk, "S").cls = "screenClass"
    /\ desk.arr = "F_above"
    /\ worker.exclusion_window_list = <<"F">>
    /\ worker.last_changed = now
    /\ worker.ignore_counter = kIgnoreCounter

\* what the caller can observe of the worker and the capturer's choice
WorkerObservable(c) ==
    [selected_window |-> c.worker.selected_window,
     exclusion_window_list |-> c.worker.exclusion_window_list,
     last_changed |-> c.worker.last_changed,
     ignore_counter |-> c.worker.ignore_counter,
     thread |-> c.worker.thread,
     capturer |-> c.capturer]

\* the capturer after SelectSource(id), and after a second SelectSource(id) made
\* dt later on the same desktop
SelectedOnce(id) == SelectSourceOp(desk, opts, Self, id)
SelectedTwice(id, dt) ==
    SelectSourceOp(desk, opts,
                   [SelectSourceOp(desk, opts, Self, id) EXCEPT
                       !.now = (@ + dt) % ClockModulus],
                   id)

\* C14: with a worker present, SelectSource(id) followed by SelectSource(id) leaves
\* the worker (bound window, exclusion list, last_changed_, ignore counter, thread)
\* and capturer_ as a single SelectSource(id) leaves them, whatever time passes
\* between the two calls.
C14_SelectSourceIdempotent ==
    (pc = "idle" /\ worker.exists) =>
        \A id \in SourceIds, dt \in TimeSteps :
            WorkerObservable(SelectedTwice(id, dt)) = WorkerObservable(SelectedOnce(id))

\* C14 witness: SelectSource has run on a window the magnifier is used for and its
\* scan stored a foreign window and stamped last_changed_; time has passed since,
\* and a second SelectSource would run the scan again and leave every field as it is
C14_Witness ==
    /\ pc = "idle" /\ last.op = "select"
    /\ worker.exists /\ worker.thread = "running"
    /\ WinOf(desk, "S").cls = "screenClass"
    /\ worker.exclusion_window_list = <<"F">>
    /\ worker.last_changed # 0 /\ worker.last_changed # now
    /\ worker.ignore_counter = kIgnoreCounter
    /\ WorkerObservable(SelectedOnce("S")) = WorkerObservable(Self)

\* the worker thread is inside Run: at the top of the loop body, in a pass, or
\* in Sleep
ThreadInRun == worker.thread \in {"running", "scanning", "sleeping"}

C15_CleanDestruction ==
    /\ pc = "destroyed" /\ last.op = "destroy"
    /\ worker.thread = "exited"

\* the positions of the caller thread
CallerPositions == {"idle", "core_windows", "run_null", "joining", "destroyed", "crashed"}
TypeCaller == pc \in CallerPositions

\* C16: a core_windows() call made by the selection path returns only after the
\* worker thread has completed a pass that began after the call was made.
C16_CoreWindowsWaitsForScan ==
    [][ReturnCoreWindows => last.passes = "completed"]_vars

\* C16 witness: core_windows() has returned while the worker thread, started,
\* took no step of a pass during the call: the caller got the empty list of a
\* worker that has not scanned yet although a core window overlaps S
C16_StaleCoreWindows ==
    /\ pc = "idle" /\ last.op = "core_windows"
    /\ last.passes = "none" /\ last.read = <<>>
    /\ opts.win8 /\ worker.thread = "running"
    /\ worker.core_windows = <<>>
    /\ FindCoreWindows(desk) = <<"F">>
    /\ CoreWindowOverlaps(desk, opts, [worker EXCEPT !.core_windows = <<"F">>],
                          GetWindowContentRect(desk, "S").rect)

\* the steps of the caller thread that read or write the worker's two lists
CallerTouchesLists ==
    \/ ReturnCoreWindows
    \/ ReadExclusionList
    \/ \E window \in SourceIds : ThreadSelectWindow(window)
    \/ \E window \in SourceIds : CallerBeginPass(window)
    \/ CallerStorePass

\* C17: while a pass is in flight on one thread, the other thread neither reads
\* nor writes core_windows_ or exclusion_window_list_, and two passes are never in
\* flight at once.
C17_ListsAccessedExclusively ==
    [][/\ CallerTouchesLists => worker.thread # "scanning"
       /\ ~(pc' = "run_null" /\ worker'.thread = "scanning")]_vars

\* C17 witness: the caller thread is inside Run(NULL), called by SelectWindow, and
\* the worker thread is inside a pass of Run(thread): both have written
\* core_windows_ and both are about to compare and store the exclusion list
C17_TwoPassesInFlight ==
    /\ pc = "run_null" /\ last.op = "bind"
    /\ worker.exists /\ worker.thread = "scanning"

\* a step that changes last_changed_ while the worker thread is running
LastChangedWritten ==
    /\ worker.exists /\ worker.thread = "running"
    /\ worker'.last_changed # worker.last_changed

\* C18 as stated: once the worker thread has started, last_changed_ is changed by
\* the passes of the worker thread only; no operation of the caller thread
\* (SelectSource, CaptureFrame, OnCaptureResult, IsChanged) changes it.
C18_Original ==
    [][LastChangedWritten => WorkerTick]_vars

\* C18: once the worker thread has started, last_changed_ is changed by the passes
\* of the worker thread and by SelectSource (through SelectWindow) only;
\* CaptureFrame, OnCaptureResult and the IsChanged calls they make never change it.
C18_OnlyTickAndSelectWrite ==
    [][LastChangedWritten => (WorkerTick \/ \E id \in SourceIds : SelectSource(id))]_vars

\* C18 witness: with the worker thread running and a foreign window above S,
\* SelectSource has run on the caller thread: the list a pass had stored is
\* cleared and last_changed_ is zero again
C18_Witness ==
    /\ pc = "idle" /\ last.op = "select"
    /\ worker.exists /\ worker.thread = "running"
    /\ desk.arr = "F_above" /\ WinOf(desk, "S").cls # "screenClass"
    /\ worker.exclusion_window_list = <<>>
    /\ worker.last_changed = 0
    /\ worker.ignore_counter = kIgnoreCounter

\* a step in which the worker thread finishes a pass
PassStored == worker.thread = "scanning" /\ worker'.thread = "sleeping"

\* whether some GUI thread, as the pass sees the desktop, is in a move/size loop
IsMoveSizeInProgress(d) == d.moving

\* the part of C19 about the list alone: a pass stamps last_changed_ with the
\* current time and stores the new list when the list differs as a sequence, and
\* leaves both as they are otherwise
C19_StampIffListDiffers ==
    [][PassStored =>
          IF worker'.exclusion_window_list # worker.exclusion_window_list
          THEN worker'.last_changed = now
          ELSE worker'.last_changed = worker.last_changed]_vars

\* C19: a pass of the worker thread sets last_changed_ to the current time iff the
\* new exclusion list differs from the previous one as a sequence (the same
\* windows in another order count as different) or a window move is in progress;
\* otherwise it leaves last_changed_ and the list unchanged.
C19_StampIffDiffersOrMoving ==
    [][PassStored =>
          IF \/ worker'.exclusion_window_list # worker.exclusion_window_list
             \/ IsMoveSizeInProgress(desk)
          THEN worker'.last_changed = now
          ELSE /\ worker'.last_changed = worker.last_changed
               /\ worker'.exclusion_window_list = worker.exclusion_window_list]_vars

\* C19 witness: a pass made while the user drags F has just finished; the list was
\* and is <<F>>, and last_changed_ still holds the time of an earlier pass
C19_MoveNotStamped ==
    /\ pc = "idle" /\ worker.thread = "sleeping"
    /\ IsMoveSizeInProgress(desk)
    /\ worker.exclusion_window_list = <<"F">>
    /\ worker.last_changed # 0 /\ worker.last_changed # now

\* a pass that found the same two windows in the other order has stored the list
\* and stamped it
C19_ReorderStamped ==
    /\ pc = "idle" /\ worker.thread = "sleeping"
    /\ desk.z = <<"G", "F", "S">>
    /\ worker.exclusion_window_list = <<"G", "F">>
    /\ worker.last_changed = now /\ now # ThreadStartTime

\* C20: a pass of the worker thread that observes GUI_INMOVESIZE stamps
\* last_changed_ with the current time even when the exclusion list is unchanged,
\* so IsChanged(kLastMsThreshold) holds right after every pass made during a drag.
C20_MoveForcesChanged ==
    [][(PassStored /\ IsMoveSizeInProgress(desk)) =>
          /\ worker'.last_changed = now
          /\ ChangedWithin(worker', now, kLastMsThreshold)]_vars

\* C20 witness: the user has been dragging F over S for kLastMsThreshold ms; the
\* worker thread has just finished a pass, and a query now reports no change
C20_DragReportedUnchanged ==
    /\ pc = "idle" /\ worker.thread = "sleeping" /\ worker.ignore_counter = 0
    /\ IsMoveSizeInProgress(desk)
    /\ worker.exclusion_window_list = <<"F">>
    /\ ElapsedSince(now, worker.last_changed) = kLastMsThreshold
    /\ ~IsChanged(worker, now, kLastMsThreshold, TRUE).ret

-----------------------------------------------------------------------------
\* the last step was a pass of the worker's loop over the desktop as it is now
TickDone == last.op = "tick"

TypeTick == last.op \in {"none", "tick", "desktop", "bind", "query"}

\* the exclusion list of the worker, as a set of positions
ListPositions == 1..Len(worker.exclusion_window_list)

\* hwnd's content rect can be read and intersects the content rect of selected
ContentOverlaps(d, selected, hwnd) ==
    /\ WinOf(d, hwnd).content_ok
    /\ WinOf(d, selected).content_ok
    /\ ~is_empty(IntersectWith(WinOf(d, hwnd).content, WinOf(d, selected).content))

\* C21: after a pass of the worker's scan, every member of the exclusion list is
\* another window than the selected one, is visible on the current desktop
\* (shown and not cloaked), is not owned by the selected window, and has a content
\* rect that intersects the selected window's content rect, whether the root
\* enumeration or the class-seeded candidates added it.
C21_MembersQualify ==
    TickDone =>
        \A i \in ListPositions :
            /\ worker.exclusion_window_list[i] # worker.selected_window
            /\ WinOf(desk, worker.exclusion_window_list[i]).exists
            /\ WinOf(desk, worker.exclusion_window_list[i]).shown
            /\ ~WinOf(desk, worker.exclusion_window_list[i]).cloaked
            /\ ~IsOwnedByRootOwner(desk, worker.selected_window,
                                   worker.exclusion_window_list[i])
            /\ ContentOverlaps(desk, worker.selected_window,
                               worker.exclusion_window_list[i])

\* C21: a state that refutes it: after a pass the list holds a dialog box owned by
\* the selected window
C21_OwnedMember ==
    /\ TickDone
    /\ worker.selected_window = "S"
    /\ WinOf(desk, "F").owner = "S"
    /\ worker.exclusion_window_list = <<"F">>

\* C21: another state that refutes it: after a pass the list holds a core window
\* that is not shown
C21_HiddenCoreMember ==
    /\ TickDone
    /\ WinOf(desk, "F").cls = "Windows.UI.Core.CoreWindow"
    /\ ~WinOf(desk, "F").shown
    /\ worker.exclusion_window_list = <<"F">>

\* the part of C21 the code keeps: no member is the selected window, and every
\* member's content rect intersects the selected window's
C21_MembersOverlap ==
    TickDone =>
        \A i \in ListPositions :
            /\ worker.exclusion_window_list[i] # worker.selected_window
            /\ ContentOverlaps(desk, worker.selected_window,
                               worker.exclusion_window_list[i])

\* the classes Run looks up by name (lines 647-648, 676, 684-685)
SeededClasses ==
    {"Windows.UI.Core.CoreWindow", "Shell_InputSwitchTopLevelWindow", "Shell_TrayWnd",
     "TaskListThumbnailWnd", "#32768", "tooltips_class32"}

\* the members at positions from..to of the exclusion list are stacked above the
\* selected window and listed top-down
AboveTopDown(from, to) ==
    /\ \A i \in from..to :
          IsAbove(desk, worker.exclusion_window_list[i], worker.selected_window)
    /\ \A i, j \in from..to :
          i < j => IsAbove(desk, worker.exclusion_window_list[i],
                           worker.exclusion_window_list[j])

\* C22 as stated: after a pass of the worker's scan every member of the exclusion
\* list is above the selected window in z-order, and the members are listed in
\* top-down z-order.
C22_Original ==
    TickDone => AboveTopDown(1, Len(worker.exclusion_window_list))

\* C22, amended: after a pass the exclusion list is the windows the root
\* enumeration added, each above the selected window and listed in top-down
\* z-order, followed by windows of the classes looked up by name, wherever those
\* are stacked.
C22_EnumeratedThenSeeded ==
    TickDone =>
        \E k \in 0..Len(worker.exclusion_window_list) :
            /\ AboveTopDown(1, k)
            /\ \A i \in (k + 1)..Len(worker.exclusion_window_list) :
                  WinOf(desk, worker.exclusion_window_list[i]).cls \in SeededClasses

\* C22: a pass has listed a window above S and, after it, a core window below S
C22_Witness ==
    /\ TickDone
    /\ desk.z = <<"F", "S", "G">>
    /\ worker.exclusion_window_list = <<"F", "G">>

\* a pass has listed two windows above S in the order they are stacked
C22_TopDownWitness ==
    /\ TickDone
    /\ desk.z = <<"G", "F", "S">>
    /\ worker.exclusion_window_list = <<"G", "F">>

\* C23: after a pass of the worker's scan the exclusion list holds no window handle
\* twice (a window of a class looked up by name that the root enumeration has
\* already added is not added again), and a window of such a class is in the list
\* only if its content rect overlaps the selected window's.
C23_NoDuplicates ==
    TickDone =>
        /\ \A i, j \in ListPositions :
              i # j => worker.exclusion_window_list[i] # worker.exclusion_window_list[j]
        /\ \A i \in ListPositions :
              WinOf(desk, worker.exclusion_window_list[i]).cls \in SeededClasses
                 => ContentOverlaps(desk, worker.selected_window,
                                    worker.exclusion_window_list[i])

\* C23: a pass on Windows 8 or later has listed, once, a core window that is above
\* S: the enumeration and the lookup by class both found it
C23_Witness ==
    /\ TickDone
    /\ opts.win8
    /\ desk.z = <<"F", "S">>
    /\ WinOf(desk, "F").cls = "Windows.UI.Core.CoreWindow"
    /\ WinOf(desk, "F").shown /\ ~WinOf(desk, "F").cloaked
    /\ worker.core_windows = <<"F">>
    /\ worker.exclusion_window_list = <<"F">>

\* a pass has left out a core window whose content rect only touches S's
C23_TouchWitness ==
    /\ TickDone
    /\ opts.win8
    /\ worker.core_windows = <<"F">>
    /\ ~ContentOverlaps(desk, "S", "F")
    /\ worker.exclusion_window_list = <<>>

\* a pass over desktop d measures a content rect that cannot be read: the selected
\* window's, or that of a window of another process shown above it
QueryFails(d, selected) ==
    \/ ~WinOf(d, selected).content_ok
    \/ \E hwnd \in DOMAIN d.win \ {selected} :
          /\ IsAbove(d, hwnd, selected)
          /\ WinOf(d, hwnd).shown /\ ~WinOf(d, hwnd).cloaked
          /\ WinOf(d, hwnd).pid # WinOf(d, selected).pid
          /\ ~WinOf(d, hwnd).content_ok

\* C24: a pass of the worker's scan in which the content rect of the selected
\* window or of a candidate window cannot be measured leaves the exclusion list and
\* last_changed_ as they were before the pass.
C24_FailedPassKeepsList ==
    [][(TickScan /\ QueryFails(desk, worker.selected_window))
          => /\ worker'.exclusion_window_list = worker.exclusion_window_list
             /\ worker'.last_changed = worker.last_changed]_vars

\* C24: a state that refutes it: a pass that could not read the content rect of the
\* window above S has emptied the list and stamped it
C24_FailedPassStamped ==
    /\ TickDone
    /\ desk.z = <<"F", "S">>
    /\ ~WinOf(desk, "F").content_ok
    /\ worker.exclusion_window_list = <<>>
    /\ worker.last_changed = now

\* a pass that could not read the content rect of S has emptied the list and
\* stamped it
C24_SelectedUnreadableStamped ==
    /\ TickDone
    /\ ~WinOf(desk, "S").content_ok
    /\ worker.exclusion_window_list = <<>>
    /\ worker.last_changed = now

-----------------------------------------------------------------------------
\* a top-level window the occlusion scan does not ignore: another window than the
\* selected and the excluded one, visible on the current desktop, not a
\* notification, counted by the title / process and core-window tests
IsNotIgnoredByScan(d, o, selected, hwnd) ==
    /\ hwnd # selected
    /\ hwnd # o.excluded_window
    /\ WinOf(d, hwnd).exists /\ WinOf(d, hwnd).shown /\ ~WinOf(d, hwnd).cloaked
    /\ ~WinOf(d, hwnd).notif
    /\ WinOf(d, hwnd).parent = NULL_HWND
    /\ IsCountedByScan(d, o, selected, hwnd)

\* a rectangle without area
HasNoArea(rc) == rc.l >= rc.r \/ rc.t >= rc.b

\* the root enumeration of the last decision went on after its i-th visit
EnumerationWentOn(i) ==
    \/ i < Len(last.decision.root_visits)
    \/ Len(last.decision.root_visits) = Len(desk.z)

\* C25 as stated: in the occlusion scan, a visited window that is not ignored and
\* whose content rect is empty or cannot be read is treated as non-overlapping:
\* the enumeration continues past it.
C25_Original ==
    (Decided /\ last.decision.scanned) =>
        \A i \in 1..Len(last.decision.root_visits) :
            (/\ IsNotIgnoredByScan(desk, opts, selected_window,
                                   last.decision.root_visits[i].hwnd)
             /\ \/ ~WinOf(desk, last.decision.root_visits[i].hwnd).content_ok
                \/ HasNoArea(WinOf(desk, last.decision.root_visits[i].hwnd).content))
               => EnumerationWentOn(i)

\* C25, amended: a visited window that is not ignored and whose content rect is
\* read and empty is treated as non-overlapping, the enumeration continues past
\* it; one whose content rect cannot be read ends the enumeration with
\* is_top_window false, and ShouldUseScreenCapturer returns false.
C25_EmptyPassedUnreadableStops ==
    (Decided /\ last.decision.scanned) =>
        \A i \in 1..Len(last.decision.root_visits) :
            IsNotIgnoredByScan(desk, opts, selected_window,
                               last.decision.root_visits[i].hwnd)
               => /\ (/\ WinOf(desk, last.decision.root_visits[i].hwnd).content_ok
                       /\ HasNoArea(WinOf(desk, last.decision.root_visits[i].hwnd).content))
                         => EnumerationWentOn(i)
                  /\ ~WinOf(desk, last.decision.root_visits[i].hwnd).content_ok
                         => /\ i = Len(last.decision.root_visits)
                            /\ ~last.decision.root_visits[i].is_top_window
                            /\ last.use_screen = "false"

\* C25: the scan of a decision stopped at a window above S whose content rect
\* could not be read, and the decision is false
C25_Witness ==
    /\ Decided /\ last.decision.scanned
    /\ IsNotIgnoredByScan(desk, opts, selected_window, "F")
    /\ ~WinOf(desk, "F").content_ok
    /\ last.decision.root_visits = <<[hwnd |-> "F", is_top_window |-> FALSE]>>
    /\ last.use_screen = "false"

\* the scan of a decision passed over a window above S whose content rect is empty
\* and reported top-most
C25_EmptyWitness ==
    /\ Decided /\ last.decision.scanned
    /\ IsNotIgnoredByScan(desk, opts, selected_window, "F")
    /\ WinOf(desk, "F").content_ok
    /\ HasNoArea(WinOf(desk, "F").content)
    /\ last.decision.root_visits = <<[hwnd |-> "F", is_top_window |-> FALSE],
                                     [hwnd |-> "S", is_top_window |-> TRUE]>>
    /\ last.use_screen = "true"

\* hwnd is a child window of selected, visible on the current desktop, whose
\* content rect overlaps the content rect of selected
IsVisibleOverlappingChild(d, selected, hwnd) ==
    /\ WinOf(d, hwnd).exists
    /\ WinOf(d, hwnd).parent = selected
    /\ WinOf(d, hwnd).shown /\ ~WinOf(d, hwnd).cloaked
    /\ ContentOverlaps(d, selected, hwnd)

\* the root enumeration of the last decision reported top-most
RootReportedTop ==
    /\ last.decision.root_visits # <<>>
    /\ last.decision.root_visits[Len(last.decision.root_visits)].is_top_window

\* C26: when the root enumeration has reported top-most, the pass over the
\* selected window's child windows reports a visible child whose content rect
\* overlaps the selected window's content rect as an occluder: is_top_window
\* becomes false and ShouldUseScreenCapturer returns false.
C26_ChildOccluderReported ==
    (/\ Decided /\ last.decision.scanned
     /\ RootReportedTop
     /\ \E hwnd \in DOMAIN desk.win :
           IsVisibleOverlappingChild(desk, selected_window, hwnd))
      => /\ \E i \in 1..Len(last.decision.child_visits) :
               ~last.decision.child_visits[i].is_top_window
         /\ last.use_screen = "false"

\* C26: a state that refutes it: S has a visible child window with a title of its
\* own inside its content rect, the child pass has visited it, and the decision is
\* to use the screen capturer
C26_ChildNotReported ==
    /\ Decided /\ last.decision.scanned
    /\ RootReportedTop
    /\ IsVisibleOverlappingChild(desk, selected_window, "C")
    /\ WinOf(desk, "C").title \notin {"", WinOf(desk, selected_window).title}
    /\ ~WinOf(desk, "C").notif
    /\ Len(last.decision.child_visits) = 1
    /\ last.decision.child_visits[1].hwnd = "C"
    /\ last.decision.child_visits[1].is_top_window
    /\ last.use_screen = "true"

-----------------------------------------------------------------------------
\* the predicates of a context constructed for a window without a thread id have
\* answered about a handle
InvalidContextAsked ==
    /\ last.op = "predicates"
    /\ WinOf(desk, selected_window).tid = 0

\* C27 as stated: when the selected window's thread id is 0, IsWindowSelected,
\* IsWindowOwned, IsUWPAncestor and IsWindowOverlapping return false for every
\* window handle.
C27_Original ==
    InvalidContextAsked =>
        ~last.selected /\ ~last.owned /\ ~last.uwp /\ ~last.overlapping

\* C27, amended: when the selected window's thread id is 0,
\* IsSelectedWindowValid returns false; IsWindowSelected still returns true for
\* the selected handle and only for it; IsWindowOwned returns true only for a
\* handle whose root owner is the selected handle, never by its same-thread rule.
C27_InvalidContextPredicates ==
    InvalidContextAsked =>
        /\ ~last.valid
        /\ last.selected <=> (last.hwnd = selected_window)
        /\ last.owned => (GetAncestorRootOwner(desk, last.hwnd) = selected_window)

\* C27: a context constructed for the handle of a closed window has been asked
\* about that handle: it is not valid, and IsWindowSelected has answered true
C27_Witness ==
    /\ InvalidContextAsked
    /\ selected_window = "S"
    /\ last.hwnd = "S"
    /\ ~last.valid
    /\ last.selected
    /\ ~last.owned

\* a context constructed for the null handle and a non-empty rectangle has
\* answered that a window overlaps
C27_NullContextOverlaps ==
    /\ InvalidContextAsked
    /\ selected_window = NULL_HWND
    /\ last.hwnd = "F"
    /\ last.overlapping

-----------------------------------------------------------------------------
\* the CaptureFrame call in progress or last finished was dropped by the
\* hysteresis rule: it slept for the transition time
HysteresisDropped == last.op = "capture" /\ last.slept > 0

\* C28: a CaptureFrame call is dropped by the hysteresis rule only when
\* capturer_ before the call was neither Unknown nor Screen and the decision of
\* the call is to use the screen capturer; the first CaptureFrame after
\* SelectSource (capturer_ Unknown) and every CaptureFrame that follows a
\* screen-capturer frame are never dropped by it.
C28_HysteresisOnlyAfterOtherBackend ==
    /\ HysteresisDropped
          => /\ last.prev_capturer \notin {"Unknown", "Screen"}
             /\ last.use_screen = "true"
    /\ (last.op = "capture" /\ last.prev_capturer \in {"Unknown", "Screen"})
          => last.slept = 0

\* C28: the first CaptureFrame after SelectSource decided for the screen capturer
\* and asked it at once, without sleeping
C28_Witness ==
    /\ last.op = "capture"
    /\ last.prev_capturer = "Unknown"
    /\ last.use_screen = "true"
    /\ last.slept = 0
    /\ last.backends = <<"Screen">>

\* a CaptureFrame that followed a magnifier frame and decided for the screen
\* capturer was dropped by the hysteresis rule
C28_DropAfterMagnifier ==
    /\ HysteresisDropped
    /\ last.prev_capturer = "Magnifier"
    /\ last.use_screen = "true"
    /\ last.delivered = <<TemporaryNoFrame>>

\* a CaptureFrame that followed a screen-capturer frame decided for the screen
\* capturer again and asked it without sleeping
C28_ScreenAgain ==
    /\ last.op = "capture"
    /\ last.prev_capturer = "Screen"
    /\ ~last.after_hysteresis
    /\ last.use_screen = "true"
    /\ last.slept = 0
    /\ last.backends = <<"Screen">>

-----------------------------------------------------------------------------
\* the CaptureFrame call in progress or last finished made its decision and was
\* not dropped by the hysteresis rule
DecidedNotDropped ==
    /\ last.op = "capture"
    /\ last.use_screen # "n/a"
    /\ last.slept = 0
    /\ pc # "crashed"

\* C29: in a CaptureFrame call that is not dropped, the occlusion scan runs first
\* and once, with the cache Empty; its answer is stored in the cache before a
\* backend is asked; while a backend is being asked the cache is still pinned, and
\* it is reset before the call returns.  Every other ShouldUseScreenCapturer call
\* of the frame, those of the base class's CaptureFrame and OnCaptureResult
\* included, is answered from the cache without a scan, so that the base class
\* never asks the screen capturer and the window capturer in the same frame.
C29_OneDecisionPerFrame ==
    DecidedNotDropped =>
        /\ last.dcheck_ok
        /\ last.scans = (IF last.decision.scanned THEN 1 ELSE 0)
        /\ last.backends # <<>>
        /\ last.use_screen = "true" => last.backends = <<"Screen">>
        /\ last.use_screen = "false"
              => \A i \in 1..Len(last.backends) : last.backends[i] # "Screen"
        /\ pc = "screen" => should_use_screen_capturer_cache = "True"
        /\ pc = "mag" => should_use_screen_capturer_cache = "False"
        /\ pc = "idle" => should_use_screen_capturer_cache = "Empty"

\* C29: a frame of the screen capturer has been delivered after one occlusion
\* scan: the base class's CaptureFrame and OnCaptureResult were both answered
\* from the cache, and the cache is Empty again
C29_Witness ==
    /\ DecidedNotDropped
    /\ pc = "idle"
    /\ last.decision.scanned
    /\ last.scans = 1
    /\ last.use_screen = "true"
    /\ last.backends = <<"Screen">>
    /\ last.ocr_changed # "true"
    /\ last.delivered = <<Callback("SUCCESS", "screen", "S")>>
    /\ should_use_screen_capturer_cache = "Empty"

\* the screen capturer has been asked and has not answered yet: the cache holds
\* the decision
C29_PinnedWhileAsked ==
    /\ DecidedNotDropped
    /\ pc = "screen"
    /\ last.scans = 1
    /\ should_use_screen_capturer_cache = "True"

-----------------------------------------------------------------------------
\* the statement of C30 as the specification has it: the decision of CaptureFrame
\* is true only if the outer rectangle of the selected window was read and has an
\* area
C30_Original ==
    (Decided /\ last.use_screen = "true")
      => /\ WinOf(desk, selected_window).winrect_ok
         /\ ~is_empty(WinOf(desk, selected_window).winrect)

\* C30: the decision of CaptureFrame is true only if the outer rectangle of the
\* selected window was read and is not the default rectangle (0,0,0,0); when the
\* query fails, window_region_rect is the default rectangle and the decision is
\* false
C30_DefaultRectRefused ==
    Decided =>
        /\ last.use_screen = "true"
              => /\ WinOf(desk, selected_window).winrect_ok
                 /\ WinOf(desk, selected_window).winrect # DesktopRect0
        /\ ~WinOf(desk, selected_window).winrect_ok
              => /\ last.use_screen = "false"
                 /\ ~last.decision.scanned
                 /\ window_region_rect = DesktopRect0

\* the outer rectangle of a window that is shown, alone on the desktop and has a
\* readable content rectangle could not be read: the decision is false
C30_Witness ==
    /\ Decided
    /\ desk.z = <<"S">>
    /\ selected_window = "S"
    /\ ~AeroRefuses(opts)
    /\ WinOf(desk, "S").shown
    /\ WinOf(desk, "S").content_ok
    /\ ~WinOf(desk, "S").winrect_ok
    /\ last.use_screen = "false"
    /\ window_region_rect = DesktopRect0

\* the selected window has no width: the decision is true and window_region_rect
\* is a rectangle without area
C30_DegenerateWitness ==
    /\ Decided
    /\ selected_window = "S"
    /\ WinOf(desk, "S").winrect = MakeRect(3, 3, 3, 5)
    /\ last.use_screen = "true"
    /\ last.decision.scanned
    /\ is_empty(window_region_rect)
    /\ window_region_rect # DesktopRect0

-----------------------------------------------------------------------------
\* the step is an IsChanged call on the worker
IsChangedStep == \E in_last_ms \in QueryWindows : WorkerIsChanged(in_last_ms)

\* C31: after the worker is bound to a window, the first kIgnoreCounter IsChanged
\* calls return false and leave the thread as it is; the next call creates the
\* thread if there is none; the thread is created by no other step, and once it
\* exists no step (a later SelectWindow included) creates it again
C31_ThreadStartedByThirdCall ==
    [][/\ (IsChangedStep /\ last'.query.nth <= kIgnoreCounter)
             => /\ ~last'.query.ret
                /\ worker'.thread = worker.thread
       /\ (IsChangedStep /\ last'.query.nth = kIgnoreCounter + 1)
             => worker'.thread # "none"
       /\ worker'.thread # worker.thread
             => /\ worker.thread = "none"
                /\ IsChangedStep
                /\ last'.query.nth = kIgnoreCounter + 1]_vars

\* the second call after a bind is made 1 ms after a recorded change and returns
\* false, and there is still no thread
C31_Witness ==
    /\ last.op = "query"
    /\ last.query.nth = kIgnoreCounter
    /\ last.query.last_changed # 0
    /\ (last.query.time - last.query.last_changed) % ClockModulus < last.query.in_last_ms
    /\ ~last.query.ret
    /\ worker.thread = "none"

\* the third call after a bind has started the thread and reports the change
C31_ThirdCallWitness ==
    /\ last.op = "query"
    /\ last.query.nth = kIgnoreCounter + 1
    /\ last.query.ret
    /\ worker.thread = "running"
    /\ worker.ignore_counter = 0

\* the worker was bound again after its thread had started: the calls are
\* ignored anew and the thread runs on
C31_ReboundWitness ==
    /\ last.op = "query"
    /\ last.query.nth = 1
    /\ ~last.query.ret
    /\ worker.thread = "running"

-----------------------------------------------------------------------------
\* the last CaptureFrame call was dropped by this class: by the debounce rule in
\* CaptureFrame or in OnCaptureResult, or by the hysteresis rule
DroppedByDebounce ==
    last.op = "capture" /\ (last.cf_changed = "true" \/ last.ocr_changed = "true")

DroppedByLayer == DroppedByDebounce \/ HysteresisDropped

\* C32: on a desktop that stays as it is, where the consumer goes on capturing
\* (again and again a frame is asked of the screen capturer), CaptureFrame calls
\* are dropped by this class only finitely often: from some frame on none is
\* dropped by the debounce rule or by the hysteresis rule
C32_DropsCease == []<>(pc = "screen") => <>[]~DroppedByLayer

\* the clock has wrapped; a frame is dropped by the debounce rule although the
\* worker has never recorded a change of its list (C37)
C32_DropAfterWrap ==
    /\ DroppedByDebounce
    /\ pc = "idle"
    /\ worker.last_changed = 0
    /\ worker.exclusion_window_list = <<>>
    /\ now < kLastMsThreshold
    /\ last.prev_capturer = "Screen"

\* the hysteresis rule drops one frame at most while the desktop stays as it is
\* (advances counts the sleeps of the rule here), and never the frame after one
\* it has dropped
C32_HysteresisOnce ==
    /\ advances <= 1
    /\ (last.op = "capture" /\ last.after_hysteresis) => last.slept = 0

-----------------------------------------------------------------------------
\* the step is a CaptureFrame call: it begins outside a call and writes the record
CaptureFrameStep == pc = "idle" /\ last' # last

\* the step is an OnCaptureResult call made by the screen capturer or the
\* magnifier, after which no other backend is asked
OnCaptureResultStep ==
    /\ pc \in {"screen", "mag"}
    /\ last' # last
    /\ last'.backends = last.backends

\* C33: a CaptureFrame call and an OnCaptureResult call that the debounce rule
\* drops leave capturer_ as it was; and when the frame before was dropped by the
\* debounce rule, capturer_ is Window or Magnifier and the decision of this frame
\* is true, the frame goes through the hysteresis drop: the call sleeps, sets
\* capturer_ to Screen and reports a temporary error
C33_DebounceKeepsCapturer ==
    [][/\ (CaptureFrameStep /\ last'.cf_changed = "true") => capturer' = capturer
       /\ (OnCaptureResultStep /\ last'.ocr_changed = "true") => capturer' = capturer
       /\ (/\ CaptureFrameStep
           /\ DroppedByDebounce
           /\ capturer \in {"Window", "Magnifier"}
           /\ last'.cf_changed = "false"
           /\ last'.use_screen = "true")
             => /\ last'.slept = kFullScreenTransitionTime
                /\ capturer' = "Screen"
                /\ pc' = "idle"
                /\ last'.backends = <<>>]_vars

\* the frame before was dropped by the debounce rule with capturer_ = Window;
\* this frame passed the debounce rule and was dropped by the hysteresis rule
C33_Witness ==
    /\ HysteresisDropped
    /\ last.prev_capturer = "Window"
    /\ last.cf_changed = "false"
    /\ last.use_screen = "true"
    /\ capturer = "Screen"
    /\ worker.last_changed = ClockModulus \div 2
    /\ now = ClockModulus \div 2 + SteadyTimeStep + kFullScreenTransitionTime
    /\ advances = 1

\* a frame was dropped by the debounce rule in CaptureFrame while capturer_ was
\* Window and the desktop asked for the screen capturer
C33_DebounceWitness ==
    /\ last.op = "capture"
    /\ last.cf_changed = "true"
    /\ last.prev_capturer = "Window"
    /\ capturer = "Window"
    /\ desk.z = <<"S">>

-----------------------------------------------------------------------------
\* C34: a SelectSource call that fails leaves the selection state as it was:
\* capturer_, the window the worker is bound to, its exclusion list, last_changed_
\* and its ignore counter
C34_FailedSelectKeepsState ==
    [][\A id \in SourceIds :
          (SelectSource(id) /\ ~last'.select_ret)
             => /\ capturer' = capturer
                /\ worker'.selected_window = worker.selected_window
                /\ worker'.exclusion_window_list = worker.exclusion_window_list
                /\ worker'.last_changed = worker.last_changed
                /\ worker'.ignore_counter = worker.ignore_counter]_vars

\* SelectSource has failed on a closed window: capturer_, which was Window or
\* Screen, is Unknown, and the worker, whose thread runs, ignores IsChanged calls
\* anew
C34_FailedSelectReset ==
    /\ pc = "idle"
    /\ last.op = "select"
    /\ ~last.select_ret
    /\ ~IsWindow(desk, "S")
    /\ last.prev_capturer \in {"Window", "Screen"}
    /\ capturer = "Unknown"
    /\ worker.exists
    /\ worker.thread = "running"
    /\ worker.ignore_counter = kIgnoreCounter
    /\ worker.last_changed = 0

\* what a failed SelectSource does leave alone: the selected window of the base
\* class and the window capturer
C34_FailedSelectKeepsSelection ==
    [][\A id \in SourceIds :
          (SelectSource(id) /\ ~last'.select_ret)
             => /\ selected_window' = selected_window
                /\ wc' = wc]_vars

-----------------------------------------------------------------------------
\* C35: every frame the window capturer delivers is a frame of the window that
\* was selected last
C35_FramesOfSelectedWindow ==
    last.op = "capture" =>
        \A i \in 1..Len(last.delivered) :
            last.delivered[i].result = "SUCCESS"
               => last.delivered[i].frame.hwnd = wc.window

\* F is selected; the frame delivered comes from the graphics-capture session
\* that was created while S was selected
C35_StaleSession ==
    /\ last.op = "capture"
    /\ wc.window = "F"
    /\ wc.windows_graphics_capturer = "S"
    /\ wc.frame_counter = kGdiFrames
    /\ last.delivered = <<Callback("SUCCESS", "wgc", "S")>>

\* frames that do not come from the graphics capturer are frames of the selected
\* window, and a frame of the graphics capturer is a frame of the window its
\* session was created for
C35_GdiFramesOfSelectedWindow ==
    last.op = "capture" =>
        \A i \in 1..Len(last.delivered) :
            last.delivered[i].result = "SUCCESS"
               => IF last.delivered[i].frame.kind = "wgc"
                  THEN last.delivered[i].frame.hwnd = wc.windows_graphics_capturer
                  ELSE last.delivered[i].frame.hwnd = wc.window

\* the steps of the worker thread that write core_windows_ or compare and assign
\* exclusion_window_list_
WorkerThreadTouchesLists == ThreadBeginPass \/ ThreadStorePass

\* C36: when a worker with a running thread is destroyed, the thread is stopped
\* and joined before the two lists are released: no step of the worker thread
\* reads or writes core_windows_ or exclusion_window_list_ once the destruction
\* of the worker's members has begun.
C36_ListsOutliveThread ==
    [][WorkerThreadTouchesLists => pc # "joining"]_vars

\* C36 witness: the destruction began while the worker thread was inside Run; the
\* thread had written core_windows_ and went on to compare and assign the
\* exclusion list, both already destroyed, and the process died in that step
C36_StoreOnReleasedLists ==
    /\ pc = "crashed" /\ last.op = "destroy"
    /\ worker.exists /\ worker.thread = "scanning"

\* once the join has returned, the worker thread takes no step on the lists
C36_NoAccessAfterJoin ==
    [][WorkerThreadTouchesLists => pc # "destroyed"]_vars

\* a clock value of a behaviour of WorkerSpec counted without the wrap: the clock
\* starts in the upper half of its range and advances by less than half of it
UnwrappedTime(time) == IF time < ClockModulus \div 2 THEN time + ClockModulus ELSE time

\* the IsChanged(kLastMsThreshold) call just made found the ignore counter used up
ThresholdQuery ==
    /\ last.op = "query" /\ last.query.asked
    /\ last.query.in_last_ms = kLastMsThreshold
    /\ last.query.ignore_counter = 0

\* C37: with the millisecond clock taken modulo its width, IsChanged(500) returns
\* false at every query made 500 ms or more after the last change of the
\* exclusion list, also when the clock has wrapped in between, and a worker whose
\* last_changed_ is still 0 never reports a change.
C37_Original ==
    ThresholdQuery =>
        /\ last.query.last_changed = 0 => ~last.query.ret
        /\ /\ last.query.last_changed # 0
           /\ UnwrappedTime(last.query.time) - UnwrappedTime(last.query.last_changed)
                 >= kLastMsThreshold
           => ~last.query.ret

\* C37 witness: no change was ever recorded (last_changed_ is 0 and the list is
\* empty), the clock has wrapped and reads less than 500, and IsChanged(500)
\* has returned true
C37_SentinelReadAsRecent ==
    /\ ThresholdQuery
    /\ last.query.last_changed = 0 /\ worker.last_changed = 0
    /\ worker.exclusion_window_list = <<>>
    /\ last.query.time < kLastMsThreshold
    /\ last.query.ret

\* for a recorded change the unsigned subtraction is right across the wrap: 500 ms
\* or more after the stamp IsChanged(500) returns false, sooner it returns true
C37_ElapsedAcrossWrap ==
    ThresholdQuery /\ last.query.last_changed # 0 =>
        (last.query.ret <=>
            UnwrappedTime(last.query.time) - UnwrappedTime(last.query.last_changed)
                < kLastMsThreshold)

\* a change stamped before the wrap, asked about after it, 500 ms or more later
C37_StampBeforeWrapAskedAfter ==
    /\ ThresholdQuery /\ ~last.query.ret
    /\ last.query.last_changed >= ClockModulus \div 2
    /\ last.query.time < ClockModulus \div 2

\* what OnCaptureResult owes the consumer for a result delivered without a frame:
\* it returns, and the consumer has received one callback without a frame,
\* carrying the result, or a temporary error when the debounce rule dropped it
ForwardedWithoutFrame(result) ==
    /\ pc' = "idle"
    /\ Len(last'.delivered) = 1
    /\ last'.delivered[1].frame = NoFrame
    /\ last'.delivered[1].result =
          IF last'.ocr_changed = "true" THEN "ERROR_TEMPORARY" ELSE result

\* C38: OnCaptureResult never reads a field of the frame when the frame is absent:
\* every result other than SUCCESS, whether the screen capturer or the magnifier
\* delivered it, is forwarded to the consumer without the frame being dereferenced.
C38_Original ==
    [][\A result \in Results \ {"SUCCESS"} :
          (ScreenResult(result) \/ MagResult(result)) => ForwardedWithoutFrame(result)]_vars

\* C38 witness: the magnifier delivered an error and no frame while capturer_ was
\* Magnifier, the window order had not changed, and OnCaptureResult read
\* top_left() of the null frame
C38_NullFrameRead ==
    /\ pc = "crashed" /\ last.op = "capture"
    /\ capturer = "Magnifier"
    /\ last.ocr_changed = "false"
    /\ last.delivered = <<>>

\* a result without a frame that the screen capturer delivers is forwarded, and so
\* is one the magnifier delivers when the debounce rule drops it
C38_ScreenErrorsForwarded ==
    [][\A result \in Results \ {"SUCCESS"} :
          /\ ScreenResult(result) => ForwardedWithoutFrame(result)
          /\ (MagResult(result) /\ last'.ocr_changed = "true")
                => ForwardedWithoutFrame(result)]_vars

\* the screen capturer delivered a permanent error and the consumer received it
C38_ScreenErrorForwarded ==
    /\ pc = "idle" /\ last.op = "capture"
    /\ capturer = "Screen"
    /\ last.backends = <<"Screen">>
    /\ last.ocr_changed = "false"
    /\ last.delivered = <<[result |-> "ERROR_PERMANENT", frame |-> NoFrame]>>

=============================================================================
